---- MODULE Spec2Model ----
(***************************************************************************)
(* Callback keep-alive registry and invocation facade of gluepy.py.        *)
(*                                                                         *)
(* The module-level lists active_callbacks and context_callback_references *)
(* hold the ctypes trampolines handed to the native library; callback_lock *)
(* is the module's Lock.  Host threads run the facade operations and the   *)
(* disposer closures they return, native threads run the trampolines, and  *)
(* the asyncio loop thread runs the callbacks scheduled on the loop.       *)
(* Every list operation (append, remove, in) is one step: CPython runs     *)
(* each under the interpreter lock.                                        *)
(*                                                                         *)
(* The value codec (object_to_glue_value, translate_glue_value,            *)
(* create_args) is modelled as operators and applied under CodecSpec; the  *)
(* calls of invoke_method, push and raise_notification by one thread, with *)
(* their arguments and return values, run under CallSpec.                  *)
(***************************************************************************)
EXTENDS Integers, Sequences, FiniteSets

\* ---------------------------------------------------------------- bounds
\* Dashboard: the timestamps time.time() returns are 1..MaxTime, at most
\* MaxWrites signals are written and init_glue_sync is called at most
\* MaxInitCalls times.
MaxTime == 3
MaxWrites == 2
MaxInitCalls == 2
\* Number of trampolines the facade operations other than initialize create.
MaxRegs == 2
\* Number of times the disposer closure of one registration is called.
MaxDisposeCalls == 2
\* Longest list, largest dict and longest native array the codec is given.
MaxLen == 2

\* --------------------------------------------------- GlueState (enum values)
NONE == 0
CONNECTING == 1
CONNECTED == 2
INITIALIZED == 3
DISCONNECTED == 4

\* ------------------------------------------------------------ identities
Regs == 1..MaxRegs
\* The trampoline GlueInitCallback(glue_init_callback) of initialize_glue.
InitT == 0
Trampolines == Regs \cup {InitT}

NoThread == <<"none", 0>>
HostThread(r) == <<"host", r>>
NativeThread(r) == <<"native", r>>
LoopThread == <<"loop", 0>>

VARIABLES
    active_callbacks,             \* list of trampolines (gluepy.py:580)
    context_callback_references,  \* list of trampolines (gluepy.py:499)
    callback_lock,   \* the thread holding callback_lock, or NoThread
    kind,            \* per registration: "handle" (register_endpoint or
                     \* subscribe_endpoint_status, whose steps are the same),
                     \* "context" (subscribe_context), "invoke" (invoke_method)
    pc,              \* per registration: position inside that facade operation
    resource,        \* per registration: the native side of it
    dpc,             \* per registration: position inside a running disposer call
    dcalls,          \* per registration: disposer calls started so far
    draised,         \* per registration: disposer calls that raised ValueError
    destroys,        \* per registration: glue_destroy_resource calls on its handle
    hpc,             \* per invoke registration: position inside result_handler
    initPc,          \* position inside initialize_glue
    future,          \* the asyncio future of initialize_glue
    resultSetBy,     \* the thread that completed the future
    loopQueue,       \* callbacks scheduled on the event loop, in order
    initStates,      \* the states the native side delivered to the init trampoline
    initRc,          \* return code of glue_init, -1 before it returns
    loopErrors,      \* exceptions raised by callbacks the loop ran
    appended,        \* per trampoline: list.append calls that inserted it
    removed,         \* per trampoline: list.remove calls that deleted it
    codecObject,     \* the Python object given to object_to_glue_value
    codecValue,      \* the GlueValue encoded, or given to translate_glue_value
    codecResult,     \* what translate_glue_value returned
    codecPc,         \* position in the application of the codec
    callOp,          \* the facade operation the caller thread is in
    callPc,          \* its position inside that operation
    callArgs,        \* the argument map it was given
    callCb,          \* whether it was given a result_callback
    callBefore,      \* the registry as it was when it was called
    callNative,      \* the native call it has issued
    callRet,         \* what it returned or raised to its caller
    session,         \* st.session_state of one dashboard session
    context_trigger_file,  \* the content of CONTEXT_TRIGGER_FILE
    dash             \* the dashboard's threads: positions, locals, calls made

facadeVars == <<active_callbacks, context_callback_references, callback_lock,
                kind, pc, resource, dpc, dcalls, draised, destroys, hpc,
                initPc, future, resultSetBy, loopQueue, initStates,
                initRc, loopErrors, appended, removed>>
codecVars == <<codecObject, codecValue, codecResult, codecPc>>
callVars == <<callOp, callPc, callArgs, callCb, callBefore, callNative,
              callRet>>

dashVars == <<session, context_trigger_file, dash>>

vars == <<facadeVars, codecVars, callVars, dashVars>>

registryVars == <<kind, pc, resource, dpc, dcalls, draised, destroys, hpc>>
initVars == <<initPc, future, resultSetBy, loopQueue, initStates,
              initRc, loopErrors>>

\* ------------------------------------------------------- list operations
Range(s) == {s[i] : i \in 1..Len(s)}

\* x in list
Contains(s, x) == x \in Range(s)

\* list.count(x)
Count(s, x) == Cardinality({i \in 1..Len(s) : s[i] = x})

\* The index of the first occurrence of x in s (x is in s).
IndexOf(s, x) == CHOOSE i \in 1..Len(s) : s[i] = x /\ \A j \in 1..(i - 1) : s[j] # x

\* A removal that deletes the last element instead of the one asked for
\* (list.pop() written for list.remove(x)).
ListRemoveLast(s, x) == SubSeq(s, 1, Len(s) - 1)

\* A removal that deletes the first element of the list whatever x is
\* (list.pop(0) written for list.remove(x)).
ListRemoveHead(s, x) == Tail(s)

\* list.remove(x): deletes the first occurrence of x; the caller has checked
\* that x is in the list (list.remove raises ValueError otherwise).
ListRemove(s, x) ==
    LET k == IndexOf(s, x)
    IN  [i \in 1..(Len(s) - 1) |-> IF i < k THEN s[i] ELSE s[i + 1]]

\* An append whose write lands on the slot of the last element: the outcome
\* of two unsynchronised read-modify-write appends losing one update.
ListAppendLossy(s, x) ==
    IF s = <<>> THEN <<x>> ELSE [s EXCEPT ![Len(s)] = x]

\* list.append(x)
ListAppend(s, x) == Append(s, x)

\* A trampoline is kept alive when one of the two module lists references it.
KeptAlive(t) ==
    Contains(active_callbacks, t) \/ Contains(context_callback_references, t)


\* ------------------------------------------------------------ host values
\* A Python object is a record [t, v]: t is the name of its type, v its
\* content.  Floats are written as their repr, a list as the sequence of
\* its items, a dict as the sequence of its <<key, value>> items in
\* insertion order.  "object" stands for every type the encoder has no
\* branch for (tuple, set, bytes, ...); its v is its truth value.
PyNone == [t |-> "NoneType", v |-> 0]
PyBool(b) == [t |-> "bool", v |-> b]
PyInt(n) == [t |-> "int", v |-> n]
PyFloat(x) == [t |-> "float", v |-> x]
PyStr(s) == [t |-> "str", v |-> s]
PyList(items) == [t |-> "list", v |-> items]
PyDict(items) == [t |-> "dict", v |-> items]
PyObject(truth) == [t |-> "object", v |-> truth]

\* bool(o): the truth value `not py_object` negates.
Truthy(o) ==
    CASE o.t = "NoneType" -> FALSE
      [] o.t = "bool" -> o.v
      [] o.t = "int" -> o.v # 0
      [] o.t = "float" -> o.v # "0.0"
      [] o.t = "str" -> o.v # ""
      [] o.t \in {"list", "dict"} -> o.v # <<>>
      [] OTHER -> o.v

\* isinstance(o, cls) for the classes the encoder tests; bool is a subclass
\* of int.
IsInstance(o, cls) ==
    IF cls = "int" THEN o.t \in {"int", "bool"} ELSE o.t = cls

\* all(isinstance(x, cls) for x in items)
AllInstance(items, cls) == \A i \in 1..Len(items) : IsInstance(items[i], cls)

\* ------------------------------------------------------------ wire values
\* GlueType
glue_none == 0
glue_bool == 1
glue_int == 2
glue_long == 3
glue_double == 4
glue_string == 5
glue_datetime == 6
glue_tuple == 7
glue_composite == 8
glue_composite_array == 9

\* A null pointer, and a pointer to the array elems.
NULL == [null |-> TRUE]
Ptr(elems) == [ptr |-> elems]
\* A bytes object (text.encode("utf-8")); decoding gives the text back.
Bytes(s) == [bytes |-> s]

\* GlueValue: data is the GlueValueUnion, written through one member.
\* member "zero" is the union as GlueValue() leaves it: all bytes zero.
GlueValue(type, len, member, val) ==
    [type |-> type, len |-> len, data |-> [member |-> member, val |-> val]]

\* GlueArg
GlueArg(name, value) == [name |-> name, value |-> value]

\* An exception leaving a function in place of its return value.
Raise(exc) == [raise |-> exc]
IsRaise(x) == "raise" \in DOMAIN x
\* The first exception in a sequence of results, each computed in turn.
FirstRaise(results) ==
    results[CHOOSE i \in 1..Len(results) :
               /\ IsRaise(results[i])
               /\ \A j \in 1..(i - 1) : ~IsRaise(results[j])]
AnyRaise(results) == \E i \in 1..Len(results) : IsRaise(results[i])

\* int(x) as the c_longlong array constructor converts a bool or an int.
AsLong(o) == IF o.t = "bool" THEN (IF o.v THEN 1 ELSE 0) ELSE o.v

\* The if/elif chain of object_to_glue_value with the truthiness test left
\* out: a falsy object goes on to the branch of its type.
BranchNoFalsyTest(py_object) ==
    IF IsInstance(py_object, "bool") THEN "bool"
    ELSE IF IsInstance(py_object, "int") THEN "int"
    ELSE IF IsInstance(py_object, "float") THEN "float"
    ELSE IF IsInstance(py_object, "str") THEN "str"
    ELSE IF IsInstance(py_object, "list") THEN "list"
    ELSE IF IsInstance(py_object, "dict") THEN "dict"
    ELSE "unsupported"

\* The if/elif chain with the list-of-dict test moved in front of the list
\* test, where it can match.
BranchListOfDictFirst(py_object) ==
    IF ~Truthy(py_object) THEN "falsy"
    ELSE IF IsInstance(py_object, "bool") THEN "bool"
    ELSE IF IsInstance(py_object, "int") THEN "int"
    ELSE IF IsInstance(py_object, "float") THEN "float"
    ELSE IF IsInstance(py_object, "str") THEN "str"
    ELSE IF IsInstance(py_object, "list") /\ AllInstance(py_object.v, "dict")
        THEN "list_of_dict"
    ELSE IF IsInstance(py_object, "list") THEN "list"
    ELSE IF IsInstance(py_object, "dict") THEN "dict"
    ELSE "unsupported"

\* The if/elif chain with a final else that returns the glue_none value
\* instead of raising.
BranchElseNone(py_object) ==
    IF ~Truthy(py_object) THEN "falsy"
    ELSE IF IsInstance(py_object, "bool") THEN "bool"
    ELSE IF IsInstance(py_object, "int") THEN "int"
    ELSE IF IsInstance(py_object, "float") THEN "float"
    ELSE IF IsInstance(py_object, "str") THEN "str"
    ELSE IF IsInstance(py_object, "list") THEN "list"
    ELSE IF IsInstance(py_object, "dict") THEN "dict"
    ELSE "falsy"

\* The branch of object_to_glue_value's if/elif chain that py_object takes:
\* the first whose condition holds, in the order of the source.
Branch(py_object) ==
    IF ~Truthy(py_object) THEN "falsy"
    ELSE IF IsInstance(py_object, "bool") THEN "bool"
    ELSE IF IsInstance(py_object, "int") THEN "int"
    ELSE IF IsInstance(py_object, "float") THEN "float"
    ELSE IF IsInstance(py_object, "str") THEN "str"
    ELSE IF IsInstance(py_object, "list") THEN "list"
    ELSE IF IsInstance(py_object, "dict") THEN "dict"
    ELSE IF IsInstance(py_object, "list") /\ AllInstance(py_object.v, "dict")
        THEN "list_of_dict"
    ELSE "unsupported"

\* object_to_glue_value(py_object): the GlueValue returned, or the
\* ValueError raised.
RECURSIVE object_to_glue_value(_)
object_to_glue_value(py_object) ==
    LET branch == Branch(py_object)
        items == py_object.v
        n == Len(items)
    IN  CASE branch = "falsy" -> GlueValue(glue_none, -1, "zero", 0)
          [] branch = "bool" -> GlueValue(glue_bool, -1, "b", py_object.v)
          [] branch = "int" -> GlueValue(glue_long, -1, "l", py_object.v)
          [] branch = "float" -> GlueValue(glue_double, -1, "d", py_object.v)
          [] branch = "str" ->
                GlueValue(glue_string, -1, "s", Bytes(py_object.v))
          [] branch = "list" ->
                IF AllInstance(items, "bool") THEN
                    GlueValue(glue_bool, n, "bb",
                              Ptr([i \in 1..n |-> items[i].v]))
                ELSE IF AllInstance(items, "int") THEN
                    GlueValue(glue_long, n, "ll",
                              Ptr([i \in 1..n |-> AsLong(items[i])]))
                ELSE IF AllInstance(items, "float") THEN
                    GlueValue(glue_double, n, "dd",
                              Ptr([i \in 1..n |-> items[i].v]))
                ELSE IF AllInstance(items, "str") THEN
                    GlueValue(glue_string, n, "ss",
                              Ptr([i \in 1..n |-> Bytes(items[i].v)]))
                ELSE
                    LET glue_values ==
                            [i \in 1..n |-> object_to_glue_value(items[i])]
                    IN  IF AnyRaise(glue_values) THEN FirstRaise(glue_values)
                        ELSE GlueValue(glue_tuple, n, "tuple", Ptr(glue_values))
          [] branch = "dict" ->
                LET values ==
                        [i \in 1..n |-> object_to_glue_value(items[i][2])]
                IN  IF AnyRaise(values) THEN FirstRaise(values)
                    ELSE GlueValue(glue_composite, n, "composite",
                                   Ptr([i \in 1..n |->
                                       GlueArg(Bytes(items[i][1]), values[i])]))
          [] branch = "list_of_dict" ->
                LET values == [i \in 1..n |-> object_to_glue_value(items[i])]
                IN  IF AnyRaise(values) THEN FirstRaise(values)
                    ELSE GlueValue(glue_composite_array, n, "composite",
                                   Ptr([i \in 1..n |->
                                       GlueArg(NULL, values[i])]))
          [] OTHER -> Raise("ValueError")

\* A builder that checks only that py_map is a dict and leaves the encoding
\* of the values for later.
create_args_raises_on_non_dict_only(py_map) == ~IsInstance(py_map, "dict")

\* create_args(py_map) raises: py_map is not a dict (ValueError), or the
\* encoder raises on one of its values.
create_args_raises(py_map) ==
    \/ ~IsInstance(py_map, "dict")
    \/ \E i \in 1..Len(py_map.v) : IsRaise(object_to_glue_value(py_map.v[i][2]))

\* A builder that fills the array from its last index down.
create_args_reversed(py_map) ==
    [i \in 1..Len(py_map.v) |->
        LET j == Len(py_map.v) + 1 - i
        IN  GlueArg(Bytes(py_map.v[j][1]), object_to_glue_value(py_map.v[j][2]))]

\* create_args(py_map), when it returns: the GlueArg array.
create_args(py_map) ==
    [i \in 1..Len(py_map.v) |->
        GlueArg(Bytes(py_map.v[i][1]), object_to_glue_value(py_map.v[i][2]))]

\* Bytes that are not valid UTF-8.
BadBytes == Bytes("\\xff")

\* What reading union member m gives when the union was written through
\* another member: the bytes of that other member reinterpreted, a value of
\* m's type that junk picks.
Aliased(m, junk) ==
    CASE m = "b" -> junk # 0
      [] m \in {"i", "l"} -> junk
      [] m = "d" -> IF junk = 0 THEN "0.0" ELSE "5e-324"
      [] OTHER -> IF junk = 0 THEN NULL
                  ELSE IF junk = 1 THEN Bytes("?") ELSE BadBytes

\* glue_value.data.<m>
ReadMember(glue_value, m, junk) ==
    IF glue_value.data.member = m THEN glue_value.data.val
    ELSE IF glue_value.data.member = "zero" THEN
        CASE m = "b" -> FALSE
          [] m \in {"i", "l"} -> 0
          [] m = "d" -> "0.0"
          [] OTHER -> NULL
    ELSE Aliased(m, junk)

\* d[key] = v on a dict kept as its items in insertion order.
DictSet(items, key, v) ==
    IF \E i \in 1..Len(items) : items[i][1] = key
    THEN [i \in 1..Len(items) |->
             IF items[i][1] = key THEN <<key, v>> ELSE items[i]]
    ELSE Append(items, <<key, v>>)

\* b.decode("utf-8") raises: b is None (AttributeError) or not UTF-8.
DecodeRaises(b) ==
    IF b = NULL THEN Raise("AttributeError") ELSE Raise("UnicodeDecodeError")
DecodeFails(b) == b = NULL \/ b = BadBytes
\* b.decode("utf-8"), when it returns.
Decode(b) == b.bytes

\* The else branches with their values exchanged: {} for a null tuple or
\* composite_array, None for a null composite.
NullResultExchanged(type) ==
    IF type = glue_composite THEN PyNone ELSE PyList(<<>>)

\* What a composite, tuple or composite_array with a null pointer decodes
\* to: the else branches "value = {}" (composite) and "value = None".
NullResult(type) ==
    IF type = glue_composite THEN PyDict(<<>>) ELSE PyNone

\* translate_glue_value(glue_value): the Python object returned, or the
\* exception raised.  The branches are tested in the order of the source;
\* junk picks what a read through the wrong union member yields.
RECURSIVE translate_glue_value(_, _)

\* {c.name.decode("utf-8"): translate_glue_value(c.value) for c in args[n:]}
\* added to the items acc.
RECURSIVE DictOf(_, _, _, _)
DictOf(args, n, junk, acc) ==
    IF n > Len(args) THEN PyDict(acc)
    ELSE
        LET v == translate_glue_value(args[n].value, junk)
        IN  IF DecodeFails(args[n].name) THEN DecodeRaises(args[n].name)
            ELSE IF IsRaise(v) THEN v
            ELSE DictOf(args, n + 1, junk,
                        DictSet(acc, Decode(args[n].name), v))

\* [translate_glue_value(x) for x in glue_values]
ListOf(glue_values, junk) ==
    LET values == [i \in 1..Len(glue_values) |->
                      translate_glue_value(glue_values[i], junk)]
    IN  IF AnyRaise(values) THEN FirstRaise(values) ELSE PyList(values)

translate_glue_value(glue_value, junk) ==
    LET type == glue_value.type
        len == glue_value.len
    IN  IF type = glue_bool THEN PyBool(ReadMember(glue_value, "b", junk))
        ELSE IF type = glue_int THEN PyInt(ReadMember(glue_value, "i", junk))
        ELSE IF type = glue_long THEN PyInt(ReadMember(glue_value, "l", junk))
        ELSE IF type = glue_double THEN
            PyFloat(ReadMember(glue_value, "d", junk))
        ELSE IF type = glue_string THEN
            LET s == ReadMember(glue_value, "s", junk)
            IN  IF s = NULL \/ s = Bytes("") THEN PyNone
                ELSE IF DecodeFails(s) THEN DecodeRaises(s)
                ELSE PyStr(Decode(s))
        \* lines 291-301 test glue_bool .. glue_string again, with len >= 0:
        \* the scalar branches above have already taken every such value,
        \* so no array branch can be entered
        ELSE IF type = glue_composite THEN
            LET composite == ReadMember(glue_value, "composite", junk)
            IN  IF composite # NULL
                THEN DictOf(SubSeq(composite.ptr, 1, len), 1, junk, <<>>)
                ELSE NullResult(type)
        ELSE IF type = glue_tuple THEN
            LET tuple == ReadMember(glue_value, "tuple", junk)
            IN  IF tuple # NULL
                THEN ListOf(SubSeq(tuple.ptr, 1, len), junk)
                ELSE NullResult(type)
        ELSE IF type = glue_composite_array THEN
            LET composite == ReadMember(glue_value, "composite", junk)
            IN  IF composite # NULL
                THEN ListOf([i \in 1..len |-> composite.ptr[i].value], junk)
                ELSE NullResult(type)
        ELSE PyNone

\* GluePayload: reader, origin, status, args (a pointer to GlueArg) and
\* args_len.
GluePayload(args, args_len) ==
    [reader |-> NULL, origin |-> Bytes("app"), status |-> 0,
     args |-> args, args_len |-> args_len]

\* f"arg_{i}" for the indexes i = 0, 1, .. of a payload's args.
ArgPlaceholders == <<"arg_0", "arg_1", "arg_2", "arg_3">>
arg_placeholder(i) == ArgPlaceholders[i + 1]

\* A loop that names every arg by its position and never reads arg.name.
ArgNamePositional(arg, i) == arg_placeholder(i)

\* name = arg.name.decode("utf-8") if arg.name else f"arg_{i}": a null name
\* and an empty name are both falsy.
ArgName(arg, i) ==
    IF arg.name # NULL /\ arg.name # Bytes("")
    THEN IF DecodeFails(arg.name) THEN DecodeRaises(arg.name)
         ELSE Decode(arg.name)
    ELSE arg_placeholder(i)

\* The loop of payload_to_object from index i on, python_object holding the
\* items set so far.
RECURSIVE PayloadLoop(_, _, _, _)
PayloadLoop(payload, i, junk, python_object) ==
    IF i >= payload.args_len THEN PyDict(python_object)
    ELSE
        LET arg == payload.args.ptr[i + 1]
            name == ArgName(arg, i)
            v == translate_glue_value(arg.value, junk)
        IN  IF arg.name # NULL /\ arg.name # Bytes("")
               /\ DecodeFails(arg.name)
            THEN DecodeRaises(arg.name)
            ELSE IF IsRaise(v) THEN v
            ELSE PayloadLoop(payload, i + 1, junk,
                             DictSet(python_object, name, v))

\* payload_to_object(payload): the dict returned, or the exception raised.
payload_to_object(payload, junk) == PayloadLoop(payload, 0, junk, <<>>)

\* The result that result_handler builds from payload_ptr and passes to
\* result_callback, or the exception raised while building it.
result_handler_result(payload_ptr, junk) ==
    IF payload_ptr # NULL
    THEN LET payload == payload_ptr.ptr
         IN  IF payload.args_len = 0 THEN PyDict(<<>>)
             ELSE DictOf(SubSeq(payload.args.ptr, 1, payload.args_len),
                         1, junk, <<>>)
    ELSE PyNone

\* ------------------------------------------------------------ codec inputs
\* The keys of the dicts drawn, in insertion order.
Keys == <<"a", "b", "c">>

\* All sequences over S of length at most n.
SeqsUpTo(S, n) == UNION {[1..k -> S] : k \in 0..n}

Scalars ==
    {PyNone, PyBool(TRUE), PyBool(FALSE), PyInt(0), PyInt(1), PyInt(2),
     PyFloat("0.0"), PyFloat("1.5"), PyStr(""), PyStr("a"),
     PyObject(TRUE), PyObject(FALSE)}

\* Containers drawn as items of a list or values of a dict.
Nested ==
    {PyList(<<>>), PyList(<<PyInt(1), PyInt(2)>>),
     PyList(<<PyInt(1), PyStr("a")>>),
     PyDict(<<>>), PyDict(<< <<"a", PyInt(1)>> >>),
     PyDict(<< <<"a", PyInt(0)>> >>)}

Items == Scalars \cup Nested

Lists == {PyList(s) : s \in SeqsUpTo(Items, MaxLen)}

Dicts ==
    {PyDict([i \in 1..Len(s) |-> <<Keys[i], s[i]>>]) :
        s \in SeqsUpTo(Items, IF MaxLen < Len(Keys) THEN MaxLen ELSE Len(Keys))}

\* The Python objects handed to object_to_glue_value.
HostValues == Scalars \cup Lists \cup Dicts

\* GlueValue(): type glue_none as the encoder sets it, the union all zero.
NoneValue == GlueValue(glue_none, -1, "zero", 0)

\* The scalar GlueValues and the arrays of at most MaxLen elements the native
\* side builds (well formed: the member written is the one of type and len).
NativeScalars ==
    {GlueValue(glue_bool, -1, "b", TRUE), GlueValue(glue_int, -1, "i", 7),
     GlueValue(glue_long, -1, "l", 7), GlueValue(glue_double, -1, "d", "1.5"),
     GlueValue(glue_string, -1, "s", Bytes("a")),
     GlueValue(glue_string, -1, "s", NULL),
     NoneValue, GlueValue(glue_datetime, -1, "l", 7)}

NativeArrays ==
    {GlueValue(glue_bool, Len(s), "bb", Ptr(s)) :
        s \in SeqsUpTo(BOOLEAN, MaxLen)}
    \cup {GlueValue(glue_int, Len(s), "ii", Ptr(s)) :
        s \in SeqsUpTo({1, 2}, MaxLen)}
    \cup {GlueValue(glue_long, Len(s), "ll", Ptr(s)) :
        s \in SeqsUpTo({1, 2}, MaxLen)}
    \cup {GlueValue(glue_double, Len(s), "dd", Ptr(s)) :
        s \in SeqsUpTo({"1.5", "2.5"}, MaxLen)}
    \cup {GlueValue(glue_string, Len(s), "ss", Ptr(s)) :
        s \in SeqsUpTo({Bytes("a"), NULL}, MaxLen)}

NativeContainers ==
    {GlueValue(glue_tuple, n, "tuple", NULL) : n \in -1..MaxLen}
    \cup {GlueValue(glue_composite, n, "composite", NULL) : n \in -1..MaxLen}
    \cup {GlueValue(glue_composite_array, n, "composite", NULL) :
            n \in -1..MaxLen}
    \cup {GlueValue(glue_tuple, Len(s), "tuple", Ptr(s)) :
        s \in SeqsUpTo(NativeScalars, MaxLen)}
    \cup {GlueValue(glue_composite, Len(s), "composite",
                    Ptr([i \in 1..Len(s) |-> GlueArg(Bytes(Keys[i]), s[i])])) :
        s \in SeqsUpTo(NativeScalars,
                       IF MaxLen < Len(Keys) THEN MaxLen ELSE Len(Keys))}
    \cup {GlueValue(glue_composite_array, Len(s), "composite",
                    Ptr([i \in 1..Len(s) |-> GlueArg(NULL, s[i])])) :
        s \in SeqsUpTo(NativeScalars, MaxLen)}

\* The GlueValues handed to translate_glue_value by the native side.
NativeValues == NativeScalars \cup NativeArrays \cup NativeContainers

\* What a read through the wrong union member may yield.
Junk == 0..2

\* The names and values of the args of the payloads drawn: a name may be
\* absent, empty or repeated.
ArgNames == {Bytes("a"), Bytes("b"), Bytes(""), NULL}
ArgNativeValues ==
    {GlueValue(glue_long, -1, "l", 7),
     GlueValue(glue_string, -1, "s", Bytes("a")),
     NoneValue,
     GlueValue(glue_string, 1, "ss", Ptr(<<Bytes("a")>>))}

\* The payloads of at most MaxLen args the native side builds; args_len may
\* be smaller than the array.
NativePayloads ==
    {GluePayload(NULL, 0)}
    \cup {GluePayload(Ptr(s), n) :
            <<s, n>> \in {p \in SeqsUpTo([name : ArgNames,
                                          value : ArgNativeValues], MaxLen)
                                \X (0..MaxLen) :
                             Len(p[1]) > 0 /\ p[2] <= Len(p[1])}}

\* The payload pointers handed to a trampoline.
NativePayloadPtrs == {NULL} \cup {Ptr(payload) : payload \in NativePayloads}

\* ------------------------------------- one caller: invoke, push, notification
\* The facade operations that take an argument map or return a status, called
\* one after another by one host thread while the native side delivers
\* nothing.
NoNative == [fn |-> "none", callback |-> NULL, rc |-> 0]
\* The keep-alive registry: the two lists, and which trampolines exist.
Registry == <<active_callbacks, context_callback_references, kind>>
Unset == [unset |-> TRUE]
CallOver == callPc \in {"idle", "returned", "raised"}


\* ------------------------------------------------------------- initial state
\* The state after gluepy is imported: both lists empty, the lock free, no
\* facade operation called yet.
FacadeInit ==
    /\ active_callbacks = <<>>
    /\ context_callback_references = <<>>
    /\ callback_lock = NoThread
    /\ kind = [r \in Regs |-> "none"]
    /\ pc = [r \in Regs |-> "idle"]
    /\ resource = [r \in Regs |-> "none"]
    /\ dpc = [r \in Regs |-> "idle"]
    /\ dcalls = [r \in Regs |-> 0]
    /\ draised = [r \in Regs |-> 0]
    /\ destroys = [r \in Regs |-> 0]
    /\ hpc = [r \in Regs |-> "idle"]
    /\ initPc = "idle"
    /\ future = "none"
    /\ resultSetBy = NoThread
    /\ loopQueue = <<>>
    /\ initStates = <<>>
    /\ initRc = -1
    /\ loopErrors = {}
    /\ appended = [t \in Trampolines |-> 0]
    /\ removed = [t \in Trampolines |-> 0]

\* The codec is not being applied.
CodecIdle ==
    /\ codecObject = PyNone
    /\ codecValue = NoneValue
    /\ codecResult = PyNone
    /\ codecPc = "idle"

\* The caller thread of invoke, push and raise_notification has called
\* nothing yet.
CallIdle ==
    /\ callOp = "none"
    /\ callPc = "idle"
    /\ callArgs = PyNone
    /\ callCb = FALSE
    /\ callBefore = Registry
    /\ callNative = NoNative
    /\ callRet = Unset

\* CONTEXT_TRIGGER_FILE: missing, just truncated by open(.., 'w'), holding
\* what is left of two interleaved writes, or one complete JSON document
\* (id numbers the write_context_signal call that wrote it, 0 for a file
\* left by an earlier process).
NoFile == [exists |-> FALSE]
EmptyFile == [exists |-> TRUE, content |-> "empty"]
GarbledFile == [exists |-> TRUE, content |-> "garbled"]
SignalFile(ric, timestamp, id) ==
    [exists |-> TRUE, content |-> "json", ric |-> ric,
     timestamp |-> timestamp, id |-> id]

\* No write_context_signal call is inside its with block.
NotWriting == [ric |-> "", id |-> 0]

\* The session state as the script first sets it, no function of the
\* dashboard called yet.
DashStart ==
    /\ session = [glue_initialized |-> FALSE, context_subscribed |-> FALSE,
                  received_ric |-> PyNone, last_context_timestamp |-> 0]
    /\ dash = [pc |-> "idle", spc |-> "idle",
               init_result |-> [success |-> FALSE, done |-> FALSE],
               init_event |-> FALSE, ret |-> "none", how |-> "none",
               inits |-> 0, glue_inits |-> 0, subscribes |-> 0,
               main_write |-> NotWriting, callback_write |-> NotWriting,
               writes |-> 0, new_ric |-> PyNone,
               returned |-> [id \in 0..MaxWrites |-> 0]]

\* The dashboard is not running.
DashIdle == DashStart /\ context_trigger_file = NoFile

Init == FacadeInit /\ CodecIdle /\ CallIdle /\ DashIdle

\* Registrations are numbered in the order the facade operations that create
\* them start: r is the next trampoline to be created.
Fresh(r) == kind[r] = "none" /\ \A q \in Regs : q < r => kind[q] # "none"

\* ------------------------------------------------------- register_endpoint
\* callback_instance = InvocationCallback(endpoint_callback);
\* ptr = glue_lib.glue_register_endpoint(name, callback_instance, None)
register_endpoint_native(r) ==
    /\ Fresh(r)
    /\ kind' = [kind EXCEPT ![r] = "handle"]
    /\ pc' = [pc EXCEPT ![r] = "handed"]
    /\ resource' = [resource EXCEPT ![r] = "alive"]
    /\ UNCHANGED <<active_callbacks, context_callback_references, callback_lock,
                   dpc, dcalls, draised, destroys, hpc, appended, removed>>
    /\ UNCHANGED initVars

\* active_callbacks.append(callback_instance); return the disposer lambda
register_endpoint_append(r) ==
    /\ kind[r] = "handle"
    /\ pc[r] = "handed"
    /\ active_callbacks' = ListAppend(active_callbacks, r)
    /\ appended' = [appended EXCEPT ![r] = @ + 1]
    /\ pc' = [pc EXCEPT ![r] = "ready"]
    /\ UNCHANGED <<context_callback_references, callback_lock, kind, resource,
                   dpc, dcalls, draised, destroys, hpc, removed>>
    /\ UNCHANGED initVars

\* ------------------------------------------------ subscribe_endpoint_status
\* callback_instance = GlueEndpointStatusCallback(endpoint_status_callback);
\* ptr = glue_lib.glue_subscribe_endpoints_status(callback_instance, None)
subscribe_endpoint_status_native(r) ==
    /\ Fresh(r)
    /\ kind' = [kind EXCEPT ![r] = "handle"]
    /\ pc' = [pc EXCEPT ![r] = "handed"]
    /\ resource' = [resource EXCEPT ![r] = "alive"]
    /\ UNCHANGED <<active_callbacks, context_callback_references, callback_lock,
                   dpc, dcalls, draised, destroys, hpc, appended, removed>>
    /\ UNCHANGED initVars

\* active_callbacks.append(callback_instance); return the disposer lambda
subscribe_endpoint_status_append(r) ==
    /\ kind[r] = "handle"
    /\ pc[r] = "handed"
    /\ active_callbacks' = ListAppend(active_callbacks, r)
    /\ appended' = [appended EXCEPT ![r] = @ + 1]
    /\ pc' = [pc EXCEPT ![r] = "ready"]
    /\ UNCHANGED <<context_callback_references, callback_lock, kind, resource,
                   dpc, dcalls, draised, destroys, hpc, removed>>
    /\ UNCHANGED initVars

\* The disposer of register_endpoint and of subscribe_endpoint_status, first
\* element of the tuple: active_callbacks.remove(callback_instance).  The
\* remove raises ValueError when the instance is not in the list, and the
\* call ends there.
dispose_active_remove(r) ==
    /\ kind[r] = "handle"
    /\ pc[r] = "ready"
    /\ dpc[r] = "idle"
    /\ dcalls[r] < MaxDisposeCalls
    /\ dcalls' = [dcalls EXCEPT ![r] = @ + 1]
    /\ IF Contains(active_callbacks, r)
       THEN /\ active_callbacks' = ListRemove(active_callbacks, r)
            /\ removed' = [removed EXCEPT ![r] = @ + 1]
            /\ dpc' = [dpc EXCEPT ![r] = "removed"]
            /\ UNCHANGED draised
       ELSE /\ draised' = [draised EXCEPT ![r] = @ + 1]
            /\ UNCHANGED <<active_callbacks, removed, dpc>>
    /\ UNCHANGED <<context_callback_references, callback_lock, kind, pc,
                   resource, destroys, hpc, appended>>
    /\ UNCHANGED initVars

\* Second element of the tuple: glue_lib.glue_destroy_resource(ptr).
dispose_active_destroy(r) ==
    /\ kind[r] = "handle"
    /\ dpc[r] = "removed"
    /\ destroys' = [destroys EXCEPT ![r] = @ + 1]
    /\ resource' = [resource EXCEPT ![r] = "destroyed"]
    /\ dpc' = [dpc EXCEPT ![r] = "idle"]
    /\ UNCHANGED <<active_callbacks, context_callback_references, callback_lock,
                   kind, pc, dcalls, draised, hpc, appended, removed>>
    /\ UNCHANGED initVars

\* ------------------------------------------------------- subscribe_context
\* cxt_callback = ContextFunction(context_callback);
\* context_callback_references.append(cxt_callback)
subscribe_context_append(r) ==
    /\ Fresh(r)
    /\ kind' = [kind EXCEPT ![r] = "context"]
    /\ context_callback_references' = ListAppend(context_callback_references, r)
    /\ appended' = [appended EXCEPT ![r] = @ + 1]
    /\ pc' = [pc EXCEPT ![r] = "appended"]
    /\ UNCHANGED <<active_callbacks, callback_lock, resource, dpc, dcalls,
                   draised, destroys, hpc, removed>>
    /\ UNCHANGED initVars

\* subscription = glue_lib.glue_subscribe_context(..., cxt_callback, None);
\* return the disposer lambda
subscribe_context_native(r) ==
    /\ kind[r] = "context"
    /\ pc[r] = "appended"
    /\ resource' = [resource EXCEPT ![r] = "alive"]
    /\ pc' = [pc EXCEPT ![r] = "ready"]
    /\ UNCHANGED <<active_callbacks, context_callback_references, callback_lock,
                   kind, dpc, dcalls, draised, destroys, hpc, appended, removed>>
    /\ UNCHANGED initVars

\* The disposer of subscribe_context, first element of the tuple:
\* glue_lib.glue_destroy_resource(subscription).
dispose_context_destroy(r) ==
    /\ kind[r] = "context"
    /\ pc[r] = "ready"
    /\ dpc[r] = "idle"
    /\ dcalls[r] < MaxDisposeCalls
    /\ dcalls' = [dcalls EXCEPT ![r] = @ + 1]
    /\ destroys' = [destroys EXCEPT ![r] = @ + 1]
    /\ resource' = [resource EXCEPT ![r] = "destroyed"]
    /\ dpc' = [dpc EXCEPT ![r] = "destroyed"]
    /\ UNCHANGED <<active_callbacks, context_callback_references, callback_lock,
                   kind, pc, draised, hpc, appended, removed>>
    /\ UNCHANGED initVars

\* Second element: context_callback_references.remove(cxt_callback), which
\* raises ValueError when the trampoline is not in the list.
dispose_context_remove(r) ==
    /\ kind[r] = "context"
    /\ dpc[r] = "destroyed"
    /\ dpc' = [dpc EXCEPT ![r] = "idle"]
    /\ IF Contains(context_callback_references, r)
       THEN /\ context_callback_references' =
                   ListRemove(context_callback_references, r)
            /\ removed' = [removed EXCEPT ![r] = @ + 1]
            /\ UNCHANGED draised
       ELSE /\ draised' = [draised EXCEPT ![r] = @ + 1]
            /\ UNCHANGED <<context_callback_references, removed>>
    /\ UNCHANGED <<active_callbacks, callback_lock, kind, pc, resource, dcalls,
                   destroys, hpc, appended>>
    /\ UNCHANGED initVars

\* The native library invokes the trampoline of a live endpoint, context or
\* status subscription on one of its threads (endpoint_callback,
\* context_callback, endpoint_status_callback).
native_deliver(r) ==
    /\ kind[r] \in {"handle", "context"}
    /\ resource[r] = "alive"
    /\ UNCHANGED vars


\* ----------------------------------------------------------- invoke_method
\* invoke_method with a result_callback: result_handler_instance =
\* PayloadFunction(result_handler); enter "with callback_lock".
invoke_lock(r) ==
    /\ Fresh(r)
    /\ callback_lock = NoThread
    /\ callback_lock' = HostThread(r)
    /\ kind' = [kind EXCEPT ![r] = "invoke"]
    /\ pc' = [pc EXCEPT ![r] = "locked"]
    /\ UNCHANGED <<active_callbacks, context_callback_references, resource,
                   dpc, dcalls, draised, destroys, hpc, appended, removed>>
    /\ UNCHANGED initVars

\* active_callbacks.append(result_handler_instance); leave the with block.
invoke_append(r) ==
    /\ kind[r] = "invoke"
    /\ pc[r] = "locked"
    /\ callback_lock = HostThread(r)
    /\ active_callbacks' = ListAppend(active_callbacks, r)
    /\ appended' = [appended EXCEPT ![r] = @ + 1]
    /\ callback_lock' = NoThread
    /\ pc' = [pc EXCEPT ![r] = "appended"]
    /\ UNCHANGED <<context_callback_references, kind, resource, dpc, dcalls,
                   draised, destroys, hpc, removed>>
    /\ UNCHANGED initVars

\* glue_lib.glue_invoke(method, args, len, result_handler_instance, None).
\* With status 0 the native side owes one result delivery; with a failure
\* status no result is ever delivered.  invoke_method then returns.
invoke_native(r, rc) ==
    /\ kind[r] = "invoke"
    /\ pc[r] = "appended"
    /\ resource' = [resource EXCEPT ![r] = IF rc = 0 THEN "pending" ELSE "failed"]
    /\ pc' = [pc EXCEPT ![r] = "ready"]
    /\ UNCHANGED <<active_callbacks, context_callback_references, callback_lock,
                   kind, dpc, dcalls, draised, destroys, hpc, appended, removed>>
    /\ UNCHANGED initVars

\* The native side delivers the single result: result_handler decodes the
\* payload and calls result_callback(result).  When result_callback raises,
\* the exception leaves result_handler and the rest of it does not run.
result_handler_call(r, raises) ==
    /\ kind[r] = "invoke"
    /\ resource[r] = "pending"
    /\ hpc[r] = "idle"
    /\ resource' = [resource EXCEPT ![r] = "delivered"]
    /\ hpc' = [hpc EXCEPT ![r] = IF raises THEN "raised" ELSE "ran"]
    /\ UNCHANGED <<active_callbacks, context_callback_references, callback_lock,
                   kind, pc, dpc, dcalls, draised, destroys, appended, removed>>
    /\ UNCHANGED initVars

\* result_handler, after result_callback returned: enter "with callback_lock".
result_handler_lock(r) ==
    /\ kind[r] = "invoke"
    /\ hpc[r] = "ran"
    /\ callback_lock = NoThread
    /\ callback_lock' = NativeThread(r)
    /\ hpc' = [hpc EXCEPT ![r] = "locked"]
    /\ UNCHANGED <<active_callbacks, context_callback_references, kind, pc,
                   resource, dpc, dcalls, draised, destroys, appended, removed>>
    /\ UNCHANGED initVars

\* if result_handler_instance in active_callbacks:
\*     active_callbacks.remove(result_handler_instance); leave the with block.
result_handler_remove(r) ==
    /\ kind[r] = "invoke"
    /\ hpc[r] = "locked"
    /\ callback_lock = NativeThread(r)
    /\ IF Contains(active_callbacks, r)
       THEN /\ active_callbacks' = ListRemove(active_callbacks, r)
            /\ removed' = [removed EXCEPT ![r] = @ + 1]
       ELSE UNCHANGED <<active_callbacks, removed>>
    /\ callback_lock' = NoThread
    /\ hpc' = [hpc EXCEPT ![r] = "done"]
    /\ UNCHANGED <<context_callback_references, kind, pc, resource, dpc, dcalls,
                   draised, destroys, appended>>
    /\ UNCHANGED initVars


\* --------------------------------------------------------- initialize_glue
\* The state callbacks the native library may deliver after the last one it
\* delivered: CONNECTING first, then forward through the GlueState values,
\* and nothing after DISCONNECTED.
NativeNextStates(delivered) ==
    IF delivered = <<>> THEN {CONNECTING}
    ELSE {s \in {CONNECTED, INITIALIZED, DISCONNECTED} :
            /\ s > delivered[Len(delivered)]
            /\ delivered[Len(delivered)] # DISCONNECTED}

\* asyncio's Future.set_result(value), run by thread th: an InvalidStateError
\* when the future is not pending; otherwise the result is stored and the
\* done callbacks (here cleanup) are scheduled on the loop with call_soon.
\* queue is the loop's queue before the call.
future_set_result(value, th, queue) ==
    IF future = "pending"
    THEN /\ future' = value
         /\ resultSetBy' = th
         /\ loopQueue' = Append(queue, "cleanup")
         /\ UNCHANGED loopErrors
    ELSE /\ loopErrors' = loopErrors \cup {"InvalidStateError"}
         /\ loopQueue' = queue
         /\ UNCHANGED <<future, resultSetBy>>

\* loop = get_running_loop(); future = loop.create_future();
\* init_callback = GlueInitCallback(glue_init_callback);
\* active_callbacks.append(init_callback); future.add_done_callback(cleanup)
initialize_glue_register ==
    /\ initPc = "idle"
    /\ future' = "pending"
    /\ active_callbacks' = ListAppend(active_callbacks, InitT)
    /\ appended' = [appended EXCEPT ![InitT] = @ + 1]
    /\ initPc' = "appended"
    /\ UNCHANGED <<context_callback_references, callback_lock, removed,
                    resultSetBy, loopQueue, initStates,
                   initRc, loopErrors>>
    /\ UNCHANGED registryVars

\* glue_lib.glue_init(app_name, init_callback, None) is issued: from here on
\* the native side may call init_callback.
initialize_glue_native ==
    /\ initPc = "appended"
    /\ initPc' = "calling"
    /\ UNCHANGED <<active_callbacks, context_callback_references, callback_lock,
                   appended, removed, future, resultSetBy,
                   loopQueue, initStates, initRc, loopErrors>>
    /\ UNCHANGED registryVars

\* glue_init returns rc; if rc != 0: future.set_result(False); return future.
\* initialize_glue runs on the loop's thread.
initialize_glue_return(rc) ==
    /\ initPc = "calling"
    /\ initRc' = rc
    /\ initPc' = "returned"
    /\ IF rc # 0
       THEN future_set_result("false", LoopThread, loopQueue)
       ELSE UNCHANGED <<future, resultSetBy, loopQueue, loopErrors>>
    /\ UNCHANGED <<active_callbacks, context_callback_references, callback_lock,
                   appended, removed, initStates>>
    /\ UNCHANGED registryVars

\* A state callback that completes the future itself on the native thread
\* (future.set_result(...) in place of loop.call_soon_threadsafe(...)).
glue_init_callback_sets_directly(state, raises) ==
    /\ initPc \in {"calling", "returned"}
    /\ state \in NativeNextStates(initStates)
    /\ initStates' = Append(initStates, state)
    /\ IF ~raises /\ state \in {INITIALIZED, DISCONNECTED}
       THEN future_set_result(IF state = INITIALIZED THEN "true" ELSE "false",
                              NativeThread(InitT), loopQueue)
       ELSE UNCHANGED <<future, resultSetBy, loopQueue, loopErrors>>
    /\ UNCHANGED <<active_callbacks, context_callback_references, callback_lock,
                   appended, removed, initPc, initRc>>
    /\ UNCHANGED registryVars

\* glue_init_callback(state, message, glue_payload, cookie) on a native
\* thread: on_state_change(state, message) is called first; when it raises,
\* the exception leaves the callback and nothing is scheduled.  Otherwise
\* INITIALIZED schedules future.set_result(True) and DISCONNECTED schedules
\* future.set_result(False) with loop.call_soon_threadsafe.
glue_init_callback(state, raises) ==
    /\ initPc \in {"calling", "returned"}
    /\ state \in NativeNextStates(initStates)
    /\ initStates' = Append(initStates, state)
    /\ loopQueue' =
         IF raises THEN loopQueue
         ELSE IF state = INITIALIZED THEN Append(loopQueue, "set_true")
         ELSE IF state = DISCONNECTED THEN Append(loopQueue, "set_false")
         ELSE loopQueue
    /\ UNCHANGED <<active_callbacks, context_callback_references, callback_lock,
                   appended, removed, initPc, future, resultSetBy, initRc,
                   loopErrors>>
    /\ UNCHANGED registryVars

\* The event loop runs the next scheduled future.set_result(value).  The
\* loop's thread is free only while it is not inside initialize_glue.
loop_run_set_result ==
    /\ initPc \in {"idle", "returned"}
    /\ loopQueue # <<>>
    /\ Head(loopQueue) \in {"set_true", "set_false"}
    /\ future_set_result(IF Head(loopQueue) = "set_true" THEN "true" ELSE "false",
                         LoopThread, Tail(loopQueue))
    /\ UNCHANGED <<active_callbacks, context_callback_references, callback_lock,
                   appended, removed, initPc, initStates,
                   initRc>>
    /\ UNCHANGED registryVars

\* A done callback that returns without removing the trampoline.
cleanup_keeps_trampoline ==
    /\ initPc \in {"idle", "returned"}
    /\ loopQueue # <<>>
    /\ Head(loopQueue) = "cleanup"
    /\ loopQueue' = Tail(loopQueue)
    /\ UNCHANGED <<active_callbacks, context_callback_references, callback_lock,
                   appended, removed, initPc, future, resultSetBy, initStates,
                   initRc, loopErrors>>
    /\ UNCHANGED registryVars

\* The event loop runs the done callback cleanup(_):
\* active_callbacks.remove(init_callback), a ValueError when it is absent.
cleanup ==
    /\ initPc \in {"idle", "returned"}
    /\ loopQueue # <<>>
    /\ Head(loopQueue) = "cleanup"
    /\ loopQueue' = Tail(loopQueue)
    /\ IF Contains(active_callbacks, InitT)
       THEN /\ active_callbacks' = ListRemove(active_callbacks, InitT)
            /\ removed' = [removed EXCEPT ![InitT] = @ + 1]
            /\ UNCHANGED loopErrors
       ELSE /\ loopErrors' = loopErrors \cup {"ValueError"}
            /\ UNCHANGED <<active_callbacks, removed>>
    /\ UNCHANGED <<context_callback_references, callback_lock, appended,
                    initPc, future, resultSetBy, initStates,
                   initRc>>
    /\ UNCHANGED registryVars

\* The caller, racing the awaitable against its own deadline on the loop's
\* thread, cancels the pending future: it becomes done and its done
\* callbacks are scheduled.
future_cancel ==
    /\ initPc = "returned"
    /\ future = "pending"
    /\ future' = "cancelled"
    /\ resultSetBy' = LoopThread
    /\ loopQueue' = Append(loopQueue, "cleanup")
    /\ UNCHANGED <<active_callbacks, context_callback_references, callback_lock,
                   appended, removed, initPc, initStates,
                   initRc, loopErrors>>
    /\ UNCHANGED registryVars

\* ----------------------------------------------------- the codec, applied
\* codecValue = object_to_glue_value(codecObject)
call_object_to_glue_value ==
    /\ codecPc = "object"
    /\ codecValue' = object_to_glue_value(codecObject)
    /\ codecPc' = IF IsRaise(object_to_glue_value(codecObject))
                  THEN "raised" ELSE "encoded"
    /\ UNCHANGED <<codecObject, codecResult>>

\* codecResult = translate_glue_value(codecValue), on the encoder's result
\* or on a GlueValue of the native side.
call_translate_glue_value(junk) ==
    /\ codecPc \in {"encoded", "native"}
    /\ codecResult' = translate_glue_value(codecValue, junk)
    /\ codecPc' = IF codecPc = "encoded" THEN "roundtrip" ELSE "translated"
    /\ UNCHANGED <<codecObject, codecValue>>

\* codecValue = create_args(codecObject), or the ValueError it raises (for
\* a py_map that is not a dict, or from the encoder).
call_create_args ==
    /\ codecPc = "object"
    /\ codecValue' = IF create_args_raises(codecObject)
                     THEN Raise("ValueError")
                     ELSE Ptr(create_args(codecObject))
    /\ codecPc' = IF create_args_raises(codecObject)
                  THEN "args_raised" ELSE "args_built"
    /\ UNCHANGED <<codecObject, codecResult>>

\* codecResult = payload_to_object(payload_ptr.contents)
call_payload_to_object(junk) ==
    /\ codecPc = "payload"
    /\ codecValue # NULL
    /\ codecResult' = payload_to_object(codecValue.ptr, junk)
    /\ codecPc' = "payload_decoded"
    /\ UNCHANGED <<codecObject, codecValue>>

\* The one-shot trampoline of invoke_method is called with payload_ptr =
\* codecValue: codecResult is the result it passes to result_callback, or
\* the exception that ends it before result_callback is called.
call_result_handler(junk) ==
    /\ codecPc = "payload"
    /\ codecResult' = result_handler_result(codecValue, junk)
    /\ codecPc' = IF IsRaise(result_handler_result(codecValue, junk))
                  THEN "handler_raised" ELSE "result_passed"
    /\ UNCHANGED <<codecObject, codecValue>>

\* ------------------------------------------- invoke, push, notification: calls
\* The values drawn for the entries of an argument map.
ArgValues ==
    {PyInt(1), PyInt(0), PyStr("a"), PyObject(TRUE), PyObject(FALSE),
     PyList(<<PyInt(1), PyObject(TRUE)>>),
     PyList(<<PyObject(FALSE), PyInt(1)>>),
     PyDict(<< <<"a", PyObject(TRUE)>> >>)}

\* The objects passed as args to invoke_method and as result_obj to push:
\* objects that are no dict, the empty dict, and dicts of one and two entries.
ArgInputs ==
    {PyNone, PyList(<<PyInt(1)>>), PyObject(TRUE), PyDict(<<>>)}
    \cup {PyDict(<< <<"a", v>> >>) : v \in ArgValues}
    \cup {PyDict(<< <<"a", PyInt(1)>>, <<"b", v>> >>) : v \in ArgValues}

\* invoke_method(method_name, args, result_callback) is called and runs
\* glue_args = create_args(args), which raises or returns.
invoke_method_create_args(args, result_callback) ==
    /\ CallOver
    /\ callOp' = "invoke_method"
    /\ callArgs' = args
    /\ callCb' = result_callback
    /\ callBefore' = Registry
    /\ callNative' = NoNative
    /\ IF create_args_raises(args)
       THEN callPc' = "raised" /\ callRet' = Raise("ValueError")
       ELSE callPc' = "built" /\ callRet' = Unset
    /\ UNCHANGED facadeVars

\* if result_callback: PayloadFunction(result_handler), enter the with block.
invoke_method_lock(r) ==
    /\ callOp = "invoke_method" /\ callPc = "built" /\ callCb
    /\ invoke_lock(r)
    /\ callPc' = "locked"
    /\ UNCHANGED <<callOp, callArgs, callCb, callBefore, callNative, callRet>>

\* active_callbacks.append(result_handler_instance)
invoke_method_append(r) ==
    /\ callOp = "invoke_method" /\ callPc = "locked"
    /\ invoke_append(r)
    /\ callPc' = "appended"
    /\ UNCHANGED <<callOp, callArgs, callCb, callBefore, callNative, callRet>>

\* glue_invoke(..., result_handler_instance, None); its status is dropped
\* and invoke_method falls off its end, returning None.
invoke_method_native(r, rc) ==
    /\ callOp = "invoke_method" /\ callPc = "appended"
    /\ invoke_native(r, rc)
    /\ callNative' = [fn |-> "glue_invoke", callback |-> Ptr(r), rc |-> rc]
    /\ callRet' = PyNone
    /\ callPc' = "returned"
    /\ UNCHANGED <<callOp, callArgs, callCb, callBefore>>

\* The else branch with a registration made all the same: a trampoline
\* created for the absent callback is appended to active_callbacks.
invoke_method_null_callback_registered(rc) ==
    /\ callOp = "invoke_method" /\ callPc = "built" /\ ~callCb
    /\ active_callbacks' = ListAppend(active_callbacks, MaxRegs + 1)
    /\ callNative' = [fn |-> "glue_invoke", callback |-> NULL, rc |-> rc]
    /\ callRet' = PyNone
    /\ callPc' = "returned"
    /\ UNCHANGED <<context_callback_references, callback_lock, appended,
                   removed>>
    /\ UNCHANGED <<registryVars, initVars>>
    /\ UNCHANGED <<callOp, callArgs, callCb, callBefore>>

\* else: result_handler_instance = ctypes.cast(None, PayloadFunction), then
\* glue_invoke(..., result_handler_instance, None); returns None.
invoke_method_null_callback(rc) ==
    /\ callOp = "invoke_method" /\ callPc = "built" /\ ~callCb
    /\ callNative' = [fn |-> "glue_invoke", callback |-> NULL, rc |-> rc]
    /\ callRet' = PyNone
    /\ callPc' = "returned"
    /\ UNCHANGED facadeVars
    /\ UNCHANGED <<callOp, callArgs, callCb, callBefore>>

\* PayloadPusher.push(result_obj): create_args(result_obj), then
\* glue_push_payload (restype c_void_p, no status); returns None.
push(result_obj) ==
    /\ CallOver
    /\ callOp' = "push"
    /\ callArgs' = result_obj
    /\ callCb' = FALSE
    /\ callBefore' = Registry
    /\ IF create_args_raises(result_obj)
       THEN /\ callPc' = "raised"
            /\ callRet' = Raise("ValueError")
            /\ callNative' = NoNative
       ELSE /\ callPc' = "returned"
            /\ callRet' = PyNone
            /\ callNative' = [fn |-> "glue_push_payload", callback |-> NULL,
                              rc |-> 0]
    /\ UNCHANGED facadeVars

\* raise_notification(title, description, severity): the status rc of
\* glue_raise_simple_notification is dropped; returns None.
raise_notification(rc) ==
    /\ CallOver
    /\ callOp' = "raise_notification"
    /\ callArgs' = PyNone
    /\ callCb' = FALSE
    /\ callBefore' = Registry
    /\ callNative' = [fn |-> "glue_raise_simple_notification",
                      callback |-> NULL, rc |-> rc]
    /\ callRet' = PyNone
    /\ callPc' = "returned"
    /\ UNCHANGED facadeVars

\* -------------------------------------------------------------- dashboard
\* streamlit_app.py: one browser session.  The script thread of the session
\* runs init_glue_sync, setup_context_subscription and
\* check_for_context_updates one at a time; native threads run the state
\* callback and context_callback.  gluepy's active_callbacks,
\* context_callback_references and the states delivered (initStates) are
\* the variables of the facade; InitT is callback_instance and registration
\* 1 the context subscription.

\* The RICs the context delivers.
Rics == {"VOD:LN"}
\* The values context_callback and glue_read_glue_value deliver.
ContextValues == {PyNone} \cup {PyStr(ric) : ric \in Rics}

\* read_context_signal(): (ric, timestamp); (None, 0) when the file is
\* missing or json.load raises.
read_context_signal ==
    IF context_trigger_file.exists /\ context_trigger_file.content = "json"
    THEN <<PyStr(context_trigger_file.ric), context_trigger_file.timestamp>>
    ELSE <<PyNone, 0>>

\* The script thread is in none of its functions.
MainIdle == dash.pc = "idle" /\ dash.spc = "idle"

\* What the dashboard leaves alone in gluepy.
dashFrame == <<callback_lock, kind, pc, resource, dpc, dcalls, draised,
               destroys, hpc, initPc, future, resultSetBy, loopQueue, initRc,
               loopErrors, appended, removed>>

\* init_glue_sync() up to active_callbacks.append(callback_instance): it
\* returns True at once when glue_initialized is set, False when
\* glue_ensure_clr() returns clr # 0.
init_glue_sync_enter(clr) ==
    /\ MainIdle
    /\ dash.inits < MaxInitCalls
    /\ IF session.glue_initialized
       THEN /\ dash' = [dash EXCEPT !.inits = @ + 1, !.ret = "true",
                                    !.how = "already"]
            /\ UNCHANGED active_callbacks
       ELSE IF clr # 0
       THEN /\ dash' = [dash EXCEPT !.inits = @ + 1, !.ret = "false",
                                    !.how = "clr"]
            /\ UNCHANGED active_callbacks
       ELSE /\ dash' = [dash EXCEPT !.inits = @ + 1, !.ret = "none",
                                    !.how = "none", !.pc = "appended",
                                    !.init_result = [success |-> FALSE,
                                                     done |-> FALSE],
                                    !.init_event = FALSE]
            /\ active_callbacks' = ListAppend(active_callbacks, InitT)
    /\ UNCHANGED <<session, context_trigger_file, context_callback_references,
                   initStates, dashFrame, codecVars, callVars>>

\* glue_lib.glue_init(b"StockPeerAnalysis", callback_instance, None) is
\* issued: from here on the native side may call callback_instance.
init_glue_sync_native ==
    /\ dash.pc = "appended"
    /\ dash' = [dash EXCEPT !.pc = "calling", !.glue_inits = @ + 1]
    /\ initStates' = <<>>
    /\ UNCHANGED <<session, context_trigger_file, active_callbacks,
                   context_callback_references, dashFrame, codecVars,
                   callVars>>

\* glue_init returns rc; if result != 0: active_callbacks.remove(...);
\* return False.  Otherwise init_event.wait(timeout=10.0) begins.
init_glue_sync_return(rc) ==
    /\ dash.pc = "calling"
    /\ IF rc # 0
       THEN /\ active_callbacks' = ListRemove(active_callbacks, InitT)
            /\ dash' = [dash EXCEPT !.pc = "idle", !.ret = "false",
                                    !.how = "rc"]
       ELSE /\ dash' = [dash EXCEPT !.pc = "waiting"]
            /\ UNCHANGED active_callbacks
    /\ UNCHANGED <<session, context_trigger_file, context_callback_references,
                   initStates, dashFrame, codecVars, callVars>>

\* init_event.wait(timeout=10.0) returns True: the event is set.
init_glue_sync_wait_set ==
    /\ dash.pc = "waiting"
    /\ dash.init_event
    /\ dash' = [dash EXCEPT !.pc = "woken"]
    /\ UNCHANGED <<session, context_trigger_file, active_callbacks,
                   context_callback_references, initStates, dashFrame,
                   codecVars, callVars>>

\* init_event.wait(timeout=10.0) returns False, the event not being set
\* when the ten seconds end: active_callbacks.remove(...); return False.
init_glue_sync_wait_timeout ==
    /\ dash.pc = "waiting"
    /\ ~dash.init_event
    /\ active_callbacks' = ListRemove(active_callbacks, InitT)
    /\ dash' = [dash EXCEPT !.pc = "idle", !.ret = "false", !.how = "timeout"]
    /\ UNCHANGED <<session, context_trigger_file, context_callback_references,
                   initStates, dashFrame, codecVars, callVars>>

\* A branch that takes the set event for success without reading
\* init_result['success'].
init_glue_sync_woken_ignores_success ==
    /\ dash.pc = "woken"
    /\ session' = [session EXCEPT !.glue_initialized = TRUE]
    /\ dash' = [dash EXCEPT !.pc = "idle", !.ret = "true",
                            !.how = "initialized"]
    /\ UNCHANGED <<context_trigger_file, active_callbacks,
                   context_callback_references, initStates, dashFrame,
                   codecVars, callVars>>

\* if init_result['success']: glue_initialized = True; return True
\* else: active_callbacks.remove(callback_instance); return False
init_glue_sync_woken ==
    /\ dash.pc = "woken"
    /\ IF dash.init_result.success
       THEN /\ session' = [session EXCEPT !.glue_initialized = TRUE]
            /\ dash' = [dash EXCEPT !.pc = "idle", !.ret = "true",
                                    !.how = "initialized"]
            /\ UNCHANGED active_callbacks
       ELSE /\ active_callbacks' = ListRemove(active_callbacks, InitT)
            /\ dash' = [dash EXCEPT !.pc = "idle", !.ret = "false",
                                    !.how = "disconnected"]
            /\ UNCHANGED session
    /\ UNCHANGED <<context_trigger_file, context_callback_references,
                   initStates, dashFrame, codecVars, callVars>>

\* The native side calls callback_instance with the next state, on its own
\* thread, at any time after glue_init was issued: INITIALIZED and
\* DISCONNECTED write init_result and set init_event.  Once init_glue_sync
\* has removed callback_instance from active_callbacks and returned,
\* nothing keeps the trampoline alive and the call is undefined: it may
\* still run the Python callback (runs) or never reach it.
init_glue_sync_glue_init_callback(state, runs) ==
    /\ dash.glue_inits > 0
    /\ dash.pc \in {"calling", "waiting", "woken", "idle"}
    /\ state \in NativeNextStates(initStates)
    /\ runs \/ ~Contains(active_callbacks, InitT)
    /\ initStates' = Append(initStates, state)
    /\ dash' =
         IF runs /\ state = INITIALIZED
         THEN [dash EXCEPT !.init_result = [success |-> TRUE, done |-> TRUE],
                           !.init_event = TRUE]
         ELSE IF runs /\ state = DISCONNECTED
         THEN [dash EXCEPT !.init_result = [success |-> FALSE, done |-> TRUE],
                           !.init_event = TRUE]
         ELSE dash
    /\ UNCHANGED <<session, context_trigger_file, active_callbacks,
                   context_callback_references, dashFrame, codecVars,
                   callVars>>

\* A subscription made without looking at context_subscribed.
setup_context_subscription_resubscribes ==
    /\ MainIdle
    /\ IF ~session.glue_initialized
       THEN UNCHANGED <<session, dash, context_callback_references>>
       ELSE /\ context_callback_references' =
                   ListAppend(context_callback_references, 1)
            /\ session' = [session EXCEPT !.context_subscribed = TRUE]
            /\ dash' = [dash EXCEPT !.subscribes =
                                        IF @ < 2 THEN @ + 1 ELSE @,
                                    !.spc = "subscribed"]
    /\ UNCHANGED <<context_trigger_file, active_callbacks, initStates,
                   dashFrame, codecVars, callVars>>

\* setup_context_subscription() up to context_subscribed = True: True at
\* once when already subscribed, False when Glue is not initialized; else
\* subscribe_context(INSTRUMENT_CONTEXT, "ric", context_callback), which
\* appends its trampoline and issues glue_subscribe_context.
setup_context_subscription ==
    /\ MainIdle
    /\ IF session.context_subscribed \/ ~session.glue_initialized
       THEN UNCHANGED <<session, dash, context_callback_references>>
       ELSE /\ context_callback_references' =
                   ListAppend(context_callback_references, 1)
            /\ session' = [session EXCEPT !.context_subscribed = TRUE]
            /\ dash' = [dash EXCEPT !.subscribes = @ + 1,
                                    !.spc = "subscribed"]
    /\ UNCHANGED <<context_trigger_file, active_callbacks, initStates,
                   dashFrame, codecVars, callVars>>

\* with open(CONTEXT_TRIGGER_FILE, 'w') as f: the file is truncated; the
\* write is numbered.
OpenForWrite(slot, ric) ==
    /\ context_trigger_file' = EmptyFile
    /\ dash' = [dash EXCEPT ![slot] = [ric |-> ric, id |-> dash.writes + 1],
                            !.writes = @ + 1,
                            !.spc = IF slot = "main_write" THEN "writing"
                                    ELSE @]

\* json.dump({'ric': ric, 'timestamp': time.time()}, f) and the close:
\* the document replaces the file's content; when another write went to
\* the file since this one truncated it, the bytes of the two may be left
\* mixed.
Dump(slot, now, mixed) ==
    /\ dash[slot] # NotWriting
    /\ mixed => context_trigger_file # EmptyFile
    /\ context_trigger_file' =
         IF mixed THEN GarbledFile
         ELSE SignalFile(dash[slot].ric, now, dash[slot].id)
    /\ dash' = [dash EXCEPT ![slot] = NotWriting,
                            !.spc = IF slot = "main_write" THEN "idle" ELSE @]

\* setup_context_subscription, "Also try to read current value":
\* current_ric = translate_glue_value(value); if current_ric:
\* write_context_signal(current_ric), here up to the open.
setup_context_subscription_read_current(current_ric) ==
    /\ dash.spc = "subscribed"
    /\ IF Truthy(current_ric) /\ dash.writes < MaxWrites
       THEN OpenForWrite("main_write", current_ric.v)
       ELSE /\ dash' = [dash EXCEPT !.spc = "idle"]
            /\ UNCHANGED context_trigger_file
    /\ UNCHANGED <<session, facadeVars, codecVars, callVars>>

\* ... and its json.dump.
setup_context_subscription_dump(now, mixed) ==
    /\ dash.spc = "writing"
    /\ Dump("main_write", now, mixed)
    /\ UNCHANGED <<session, facadeVars, codecVars, callVars>>

\* context_callback(context_name, field_path, value) on a native thread,
\* after the subscription: if value: write_context_signal(str(value)),
\* here up to the open.
context_callback(value) ==
    /\ dash.subscribes > 0
    /\ dash.callback_write = NotWriting
    /\ dash.writes < MaxWrites
    /\ IF Truthy(value)
       THEN OpenForWrite("callback_write", value.v)
       ELSE UNCHANGED <<dash, context_trigger_file>>
    /\ UNCHANGED <<session, facadeVars, codecVars, callVars>>

\* ... and its json.dump.
context_callback_dump(now, mixed) ==
    /\ Dump("callback_write", now, mixed)
    /\ UNCHANGED <<session, facadeVars, codecVars, callVars>>

\* A poll that takes a signal whose timestamp is not older than the last
\* one seen.
check_for_context_updates_not_older ==
    LET ric == read_context_signal[1]
        timestamp == read_context_signal[2]
        new_ric == IF timestamp >= session.last_context_timestamp
                      /\ Truthy(ric) THEN ric ELSE PyNone
    IN  /\ MainIdle
        /\ session.context_subscribed
        /\ session' =
             [session EXCEPT
                !.last_context_timestamp =
                    IF timestamp >= @ THEN timestamp ELSE @,
                !.received_ric = IF Truthy(new_ric) THEN new_ric ELSE @]
        /\ dash' =
             [dash EXCEPT
                !.new_ric = new_ric,
                !.returned =
                    IF Truthy(new_ric)
                    THEN [@ EXCEPT ![context_trigger_file.id] =
                                       IF @ < 2 THEN @ + 1 ELSE @]
                    ELSE @]
        /\ UNCHANGED <<context_trigger_file, facadeVars, codecVars, callVars>>

\* The script's poll: if context_subscribed:
\* new_ric = check_for_context_updates(); if new_ric: received_ric = new_ric.
\* check_for_context_updates reads the signal and, when its timestamp is
\* greater than last_context_timestamp, stores the timestamp and returns
\* the ric if it is not empty.  dash.returned counts, per written signal,
\* the polls that returned it.
check_for_context_updates ==
    LET ric == read_context_signal[1]
        timestamp == read_context_signal[2]
        new_ric == IF timestamp > session.last_context_timestamp
                      /\ Truthy(ric) THEN ric ELSE PyNone
    IN  /\ MainIdle
        /\ session.context_subscribed
        /\ session' =
             [session EXCEPT
                !.last_context_timestamp =
                    IF timestamp > @ THEN timestamp ELSE @,
                !.received_ric = IF Truthy(new_ric) THEN new_ric ELSE @]
        /\ dash' =
             [dash EXCEPT
                !.new_ric = new_ric,
                !.returned =
                    IF Truthy(new_ric)
                    THEN [@ EXCEPT ![context_trigger_file.id] = @ + 1]
                    ELSE @]
        /\ UNCHANGED <<context_trigger_file, facadeVars, codecVars, callVars>>

\* ------------------------------------------------------------ specification
\* The steps below leave the application of the codec and the sequential
\* caller of invoke, push and raise_notification alone.
OtherIdle == UNCHANGED <<codecVars, callVars, dashVars>>

\* The steps that only touch context_callback_references: subscribe_context
\* and its disposer.
NextContext ==
    \/ \E r \in Regs : subscribe_context_append(r) /\ OtherIdle
    \/ \E r \in Regs : subscribe_context_native(r) /\ OtherIdle
    \/ \E r \in Regs : dispose_context_destroy(r) /\ OtherIdle
    \/ \E r \in Regs : dispose_context_remove(r) /\ OtherIdle

\* The steps of the operations that share active_callbacks, of their
\* trampolines and of the event loop.
NextActive ==
    \/ \E r \in Regs : register_endpoint_native(r) /\ OtherIdle
    \/ \E r \in Regs : register_endpoint_append(r) /\ OtherIdle
    \/ \E r \in Regs : subscribe_endpoint_status_native(r) /\ OtherIdle
    \/ \E r \in Regs : subscribe_endpoint_status_append(r) /\ OtherIdle
    \/ \E r \in Regs : dispose_active_remove(r) /\ OtherIdle
    \/ \E r \in Regs : dispose_active_destroy(r) /\ OtherIdle
    \/ \E r \in Regs : native_deliver(r) /\ OtherIdle
    \/ \E r \in Regs : invoke_lock(r) /\ OtherIdle
    \/ \E r \in Regs : invoke_append(r) /\ OtherIdle
    \/ \E r \in Regs, rc \in {0, 1} : invoke_native(r, rc) /\ OtherIdle
    \/ \E r \in Regs, raises \in BOOLEAN : result_handler_call(r, raises)
          /\ OtherIdle
    \/ \E r \in Regs : result_handler_lock(r) /\ OtherIdle
    \/ \E r \in Regs : result_handler_remove(r) /\ OtherIdle
    \/ initialize_glue_register /\ OtherIdle
    \/ initialize_glue_native /\ OtherIdle
    \/ \E rc \in {0, 1} : initialize_glue_return(rc) /\ OtherIdle
    \/ \E s \in CONNECTING..DISCONNECTED, raises \in BOOLEAN :
          glue_init_callback(s, raises)
          /\ OtherIdle
    \/ loop_run_set_result /\ OtherIdle
    \/ cleanup /\ OtherIdle
    \/ future_cancel /\ OtherIdle

Next == NextActive \/ NextContext

Spec == Init /\ [][Next]_vars

\* The event loop keeps running the callbacks scheduled on it.
FairSpec ==
    Spec /\ WF_vars(loop_run_set_result /\ OtherIdle)
         /\ WF_vars(cleanup /\ OtherIdle)

\* initialize_glue among the operations that share active_callbacks with it
\* (subscribe_context keeps its trampolines in the other list), under the
\* same fairness of the event loop.
ActiveFairSpec ==
    Init /\ [][NextActive]_vars
         /\ WF_vars(loop_run_set_result /\ OtherIdle)
         /\ WF_vars(cleanup /\ OtherIdle)

\* The codec as a pure function: a Python object is drawn and encoded, and
\* what the encoder returned is decoded; or a GlueValue of the native side is
\* drawn and decoded.
CodecInit ==
    /\ FacadeInit /\ CallIdle /\ DashIdle
    /\ codecResult = PyNone
    /\ \/ codecPc = "object" /\ codecObject \in HostValues
          /\ codecValue = NoneValue
       \/ codecPc = "native" /\ codecObject = PyNone
          /\ codecValue \in NativeValues
       \/ codecPc = "payload" /\ codecObject = PyNone
          /\ codecValue \in NativePayloadPtrs

CodecNext ==
    \/ call_object_to_glue_value /\ UNCHANGED <<facadeVars, callVars, dashVars>>
    \/ \E junk \in Junk :
          call_translate_glue_value(junk) /\ UNCHANGED <<facadeVars, callVars, dashVars>>
    \/ call_create_args /\ UNCHANGED <<facadeVars, callVars, dashVars>>
    \/ \E junk \in Junk :
          call_payload_to_object(junk) /\ UNCHANGED <<facadeVars, callVars, dashVars>>
    \/ \E junk \in Junk :
          call_result_handler(junk) /\ UNCHANGED <<facadeVars, callVars, dashVars>>

CodecSpec == CodecInit /\ [][CodecNext]_vars

\* invoke_method, push and raise_notification called one after another by
\* one host thread.
CallNext ==
    \/ \E args \in ArgInputs, result_callback \in BOOLEAN :
          invoke_method_create_args(args, result_callback)
          /\ UNCHANGED <<codecVars, dashVars>>
    \/ \E r \in Regs : invoke_method_lock(r) /\ UNCHANGED <<codecVars, dashVars>>
    \/ \E r \in Regs : invoke_method_append(r) /\ UNCHANGED <<codecVars, dashVars>>
    \/ \E r \in Regs, rc \in {0, 1} :
          invoke_method_native(r, rc) /\ UNCHANGED <<codecVars, dashVars>>
    \/ \E rc \in {0, 1} : invoke_method_null_callback(rc) /\ UNCHANGED <<codecVars, dashVars>>
    \/ \E result_obj \in ArgInputs : push(result_obj) /\ UNCHANGED <<codecVars, dashVars>>
    \/ \E rc \in {0, 1} : raise_notification(rc) /\ UNCHANGED <<codecVars, dashVars>>

CallSpec == Init /\ [][CallNext]_vars

\* The dashboard session: the temporary file may be left from an earlier
\* process.
DashInit ==
    /\ FacadeInit /\ CodecIdle /\ CallIdle /\ DashStart
    /\ context_trigger_file \in
           {NoFile} \cup {SignalFile(ric, now, 0) :
                             ric \in Rics, now \in 1..MaxTime}

DashNext ==
    \/ \E clr \in {0, 1} : init_glue_sync_enter(clr)
    \/ init_glue_sync_native
    \/ \E rc \in {0, 1} : init_glue_sync_return(rc)
    \/ init_glue_sync_wait_set
    \/ init_glue_sync_wait_timeout
    \/ init_glue_sync_woken
    \/ \E state \in CONNECTING..DISCONNECTED, runs \in BOOLEAN :
          init_glue_sync_glue_init_callback(state, runs)
    \/ setup_context_subscription
    \/ \E current_ric \in ContextValues :
          setup_context_subscription_read_current(current_ric)
    \/ \E now \in 1..MaxTime, mixed \in BOOLEAN :
          setup_context_subscription_dump(now, mixed)
    \/ \E value \in ContextValues : context_callback(value)
    \/ \E now \in 1..MaxTime, mixed \in BOOLEAN :
          context_callback_dump(now, mixed)
    \/ check_for_context_updates

DashSpec == DashInit /\ [][DashNext]_vars

\* The dashboard with its threads running on: the script is rerun every two
\* seconds (st_autorefresh) and polls again, the script thread leaves
\* setup_context_subscription, and a write that has opened the file goes on
\* to its json.dump.
DashFairSpec ==
    /\ DashSpec
    /\ WF_vars(check_for_context_updates)
    /\ WF_vars(\E current_ric \in ContextValues :
                  setup_context_subscription_read_current(current_ric))
    /\ WF_vars(\E now \in 1..MaxTime, mixed \in BOOLEAN :
                  setup_context_subscription_dump(now, mixed))
    /\ WF_vars(\E now \in 1..MaxTime, mixed \in BOOLEAN :
                  context_callback_dump(now, mixed))

\* ================================================================== claims

\* The native side may still invoke trampoline t: its native resource exists
\* and is not destroyed, its one-shot result is still owed, or glue_init was
\* issued and further state callbacks can arrive.
NativeMayInvoke(t) ==
    IF t = InitT
    THEN initPc \in {"calling", "returned"} /\ NativeNextStates(initStates) # {}
    ELSE \/ kind[t] \in {"handle", "context"} /\ resource[t] = "alive"
         \/ kind[t] = "invoke" /\ resource[t] = "pending"

\* C1 (keep-alive safety): every trampoline the native side may still invoke
\* is present in active_callbacks or context_callback_references.
C1_KeepAliveSafety ==
    \A t \in Trampolines : NativeMayInvoke(t) => KeptAlive(t)

\* C2 (disposer idempotence): no call of a disposer raises, and the native
\* destroy-resource is never called a second time for the same handle.
C2_DisposerIdempotent ==
    \A r \in Regs : draised[r] = 0 /\ destroys[r] <= 1

\* The disposer of registration r was called exactly once and has returned.
DisposedOnce(r) ==
    /\ kind[r] \in {"handle", "context"}
    /\ pc[r] = "ready"
    /\ dcalls[r] = 1
    /\ dpc[r] = "idle"

\* C3 (exactly-once release): a registration whose disposer was called
\* exactly once is in neither list, its call did not raise and its handle was
\* destroyed exactly once; when that is so for every registration created,
\* the lists hold no subscription trampoline at all.
C3_ExactlyOnceRelease ==
    /\ \A r \in Regs : DisposedOnce(r) =>
          /\ ~KeptAlive(r)
          /\ draised[r] = 0
          /\ destroys[r] = 1
    /\ (\A r \in Regs : kind[r] \in {"handle", "context"} => DisposedOnce(r)) =>
          /\ context_callback_references = <<>>
          /\ \A i \in 1..Len(active_callbacks) :
                \/ active_callbacks[i] = InitT
                \/ kind[active_callbacks[i]] = "invoke"

\* Two registrations of different operations, each disposed once, in either
\* order, and both lists empty.
C3_Witness ==
    /\ \A r \in Regs : DisposedOnce(r)
    /\ \E r, q \in Regs : kind[r] = "handle" /\ kind[q] = "context"
    /\ active_callbacks = <<>>
    /\ context_callback_references = <<>>

\* C4 (one-shot release): once result_handler has run, whether
\* result_callback returned or raised, its trampoline is not in
\* active_callbacks.
C4_OneShotReleased ==
    \A r \in Regs :
        (kind[r] = "invoke" /\ hpc[r] \in {"done", "raised"}) =>
            ~Contains(active_callbacks, r)

\* C5 (register before hand-off): a trampoline that a native call has
\* received was inserted in a keep-alive list before.
C5_RegisterBeforeHandoff ==
    /\ \A r \in Regs : resource[r] # "none" => appended[r] > 0
    /\ initPc \in {"calling", "returned"} => appended[InitT] > 0

\* C6 (lock discipline): every step that changes active_callbacks or
\* context_callback_references is taken while callback_lock is held.
C6_LockDiscipline ==
    [][(\/ active_callbacks' # active_callbacks
        \/ context_callback_references' # context_callback_references)
          => callback_lock # NoThread]_vars

\* C7 (concurrent registration safety): in every interleaving each
\* trampoline occurs in the lists exactly as often as it was appended minus
\* removed, at most once, so the number of entries is the number of
\* registrations minus the number of unregistrations.
C7_RegistryCount ==
    \A t \in Trampolines :
        /\ Count(active_callbacks, t) + Count(context_callback_references, t)
              = appended[t] - removed[t]
        /\ appended[t] - removed[t] \in {0, 1}

\* Threads inside registry operations at once: a thread holds the lock, a
\* disposer is between its two steps, one trampoline is already removed and
\* another is still registered.
C7_Witness ==
    /\ callback_lock # NoThread
    /\ \E r \in Regs : dpc[r] # "idle"
    /\ \E t \in Trampolines : removed[t] = 1
    /\ Len(active_callbacks) + Len(context_callback_references) >= 1

\* The first terminal state (INITIALIZED or DISCONNECTED) the native side
\* delivered, NONE when it delivered none.
FirstTerminal ==
    LET term == {i \in 1..Len(initStates) :
                    initStates[i] \in {INITIALIZED, DISCONNECTED}}
    IN  IF term = {} THEN NONE
        ELSE initStates[CHOOSE i \in term : \A j \in term : i <= j]

\* No future.set_result is waiting on the loop.
NoResultPending ==
    \A i \in 1..Len(loopQueue) : loopQueue[i] = "cleanup"

\* C8 (initialize resolution): a non-zero return code resolves the future to
\* false at once; with return code 0, once the loop has run what the callback
\* scheduled, the future of a caller that did not cancel is true after
\* CONNECTING..INITIALIZED and false after CONNECTING..DISCONNECTED; and
\* while only non-terminal states were delivered it is unresolved.
C8_InitializeResolution ==
    /\ (initPc = "returned" /\ initRc # 0) => future = "false"
    /\ (initPc = "returned" /\ initRc = 0 /\ NoResultPending
          /\ future # "cancelled") =>
          /\ FirstTerminal = INITIALIZED => future = "true"
          /\ FirstTerminal = DISCONNECTED => future = "false"
    /\ (FirstTerminal = NONE /\ initRc \in {-1, 0}) =>
          future \in {"none", "pending", "cancelled"}

\* C9 (initialize trampoline lifetime): from the glue_init call until the
\* future is resolved the init trampoline is in active_callbacks; it is
\* removed at most once and never inserted again; and once the future is
\* resolved it is eventually removed.
C9_InitTrampolineLifetime ==
    /\ []((initPc \in {"calling", "returned"} /\ future = "pending")
            => Contains(active_callbacks, InitT))
    /\ [](removed[InitT] <= 1 /\ Count(active_callbacks, InitT) <= 1)
    /\ [](removed[InitT] = 1 => ~Contains(active_callbacks, InitT))
    /\ ((future \in {"true", "false"})
            ~> (removed[InitT] = 1 /\ ~Contains(active_callbacks, InitT)))

\* The future resolved to true by INITIALIZED and the trampoline removed by
\* cleanup.
C9_Witness ==
    /\ future = "true"
    /\ removed[InitT] = 1
    /\ ~Contains(active_callbacks, InitT)

\* C10 (thread hand-off): the future is completed only by the loop's thread;
\* a native thread never completes it.
C10_ResultSetOnLoopThread ==
    /\ future \in {"true", "false", "cancelled"} => resultSetBy = LoopThread
    /\ future \in {"none", "pending"} => resultSetBy = NoThread

\* The future completed from a state callback's scheduled set_result.
C10_Witness ==
    /\ future = "true"
    /\ initRc = 0
    /\ INITIALIZED \in Range(initStates)
    /\ resultSetBy = LoopThread


\* C11 (handler errors stop at the trampoline): no handler error leaves a
\* trampoline with its remaining steps undone: result_handler never ends by
\* the exception of result_callback, and after a terminal state callback
\* (glue_init returned 0, nothing left on the loop) the future is completed.
C11_HandlerErrorsContained ==
    /\ \A r \in Regs : kind[r] = "invoke" => hpc[r] # "raised"
    /\ (initPc = "returned" /\ initRc = 0 /\ loopQueue = <<>>
          /\ FirstTerminal # NONE) => future # "pending"

\* The native side can no longer call the one-shot trampoline of r: glue_invoke
\* failed, or the single result was delivered and result_handler has ended.
OneShotOver(r) ==
    /\ kind[r] = "invoke"
    /\ pc[r] = "ready"
    /\ \/ resource[r] = "failed"
       \/ resource[r] = "delivered" /\ hpc[r] \in {"done", "raised"}

\* C14 (no leaked one-shot registration): a one-shot trampoline the native
\* side can no longer call is not in the registry and was removed exactly
\* once.
C14_NoLeakedOneShot ==
    \A r \in Regs : OneShotOver(r) =>
        ~Contains(active_callbacks, r) /\ removed[r] = 1


\* C12 (native status is reported): when invoke_method or raise_notification
\* has returned, what it returned is the status of its native call.
C12_NativeStatusReported ==
    (callPc = "returned" /\ callOp \in {"invoke_method", "raise_notification"})
        => callRet = PyInt(callNative.rc)

\* o is, or contains at any depth, a value of a type the encoder has no
\* branch for.
RECURSIVE HasUnencodableType(_)
HasUnencodableType(o) ==
    \/ o.t = "object"
    \/ o.t = "list" /\ \E i \in 1..Len(o.v) : HasUnencodableType(o.v[i])
    \/ o.t = "dict" /\ \E i \in 1..Len(o.v) : HasUnencodableType(o.v[i][2])

\* The same, the value being truthy.
RECURSIVE HasTruthyUnencodable(_)
HasTruthyUnencodable(o) ==
    \/ o.t = "object" /\ Truthy(o)
    \/ o.t = "list" /\ \E i \in 1..Len(o.v) : HasTruthyUnencodable(o.v[i])
    \/ o.t = "dict" /\ \E i \in 1..Len(o.v) : HasTruthyUnencodable(o.v[i][2])

\* The running call has failed to its caller with no effect: it raised, it
\* issued no native call and the registry is as it found it.
FailedBeforeAnyEffect ==
    /\ callPc = "raised"
    /\ IsRaise(callRet)
    /\ callNative = NoNative
    /\ Registry = callBefore

\* C13 as stated (codec/builder errors precede any effect): invoke_method or
\* push given an argument map that is not a map, or that contains a value of
\* an unencodable type, fails before any native call and leaves the registry
\* unchanged.
C13_AnyUnencodableFailsFirst ==
    (/\ callOp \in {"invoke_method", "push"}
     /\ \/ callArgs.t # "dict"
        \/ HasUnencodableType(callArgs))
        => FailedBeforeAnyEffect

\* C13, amended: invoke_method or push given an argument map that is not a
\* map, or that contains a truthy value of an unencodable type, fails before
\* any native call and leaves the registry unchanged.
C13_BuilderErrorsPrecedeEffects ==
    (/\ callOp \in {"invoke_method", "push"}
     /\ \/ callArgs.t # "dict"
        \/ HasTruthyUnencodable(callArgs))
        => FailedBeforeAnyEffect

C13_Witness ==
    /\ callOp = "invoke_method"
    /\ callPc = "raised"
    /\ callArgs.t = "dict"
    /\ HasTruthyUnencodable(callArgs)
    /\ active_callbacks # <<>>

\* C15 (invoke without a result_callback registers nothing): during and
\* after such a call the registry is as the call found it, and the native
\* call it issues carries a null callback.
C15_NoCallbackNoTrampoline ==
    (callOp = "invoke_method" /\ ~callCb) =>
        /\ Registry = callBefore
        /\ callPc = "returned" =>
              callNative.fn = "glue_invoke" /\ callNative.callback = NULL

C15_Witness ==
    /\ callOp = "invoke_method"
    /\ ~callCb
    /\ callPc = "returned"
    /\ active_callbacks # <<>>

\* No value of an unsupported type at any depth of o.
RECURSIVE Supported(_)
Supported(o) ==
    /\ o.t # "object"
    /\ o.t = "list" => \A i \in 1..Len(o.v) : Supported(o.v[i])
    /\ o.t = "dict" => \A i \in 1..Len(o.v) : Supported(o.v[i][2])

\* C16 (codec round trip): a truthy scalar, list or map of supported values,
\* encoded and decoded again, comes back equal to itself.
C16_RoundTrip ==
    (codecPc = "roundtrip" /\ Truthy(codecObject) /\ Supported(codecObject))
        => codecResult = codecObject

\* The Python object the array element raw of a GlueValue of the given
\* type stands for.
ElementOf(type, raw) ==
    CASE type = glue_bool -> PyBool(raw)
      [] type \in {glue_int, glue_long} -> PyInt(raw)
      [] type = glue_double -> PyFloat(raw)
      [] OTHER -> IF raw = NULL THEN PyNone ELSE PyStr(raw.bytes)

\* C17 (array decoding): a GlueValue of type bool, int, long, double or
\* string with len >= 0 decodes to the list of its len elements in order, a
\* null string element to None; only with len = -1 is the result a scalar.
C17_ArrayDecoding ==
    (codecPc = "translated" /\ codecValue.type \in glue_bool..glue_string) =>
        IF codecValue.len >= 0
        THEN /\ ~IsRaise(codecResult)
             /\ codecResult.t = "list"
             /\ Len(codecResult.v) = codecValue.len
             /\ \A i \in 1..codecValue.len :
                   codecResult.v[i]
                     = ElementOf(codecValue.type, codecValue.data.val.ptr[i])
        ELSE IsRaise(codecResult) \/ codecResult.t # "list"

\* A GlueValue of type glue_none with len -1 that decodes to None.
IsNoneValue(gv) ==
    /\ gv.type = glue_none
    /\ gv.len = -1
    /\ \A junk \in Junk : translate_glue_value(gv, junk) = PyNone

\* C18 (falsy normalization): a falsy object, at top level, as a dict value
\* or as an element of a list encoded as a tuple, encodes to glue_none with
\* len -1, which decodes to None.
C18_FalsyNormalization ==
    codecPc \in {"encoded", "roundtrip"} =>
        /\ ~Truthy(codecObject) =>
              /\ IsNoneValue(codecValue)
              /\ codecPc = "roundtrip" => codecResult = PyNone
        /\ codecValue.type = glue_composite =>
              \A i \in 1..Len(codecObject.v) :
                  ~Truthy(codecObject.v[i][2]) =>
                      IsNoneValue(codecValue.data.val.ptr[i].value)
        /\ codecValue.type = glue_tuple =>
              \A i \in 1..Len(codecObject.v) :
                  ~Truthy(codecObject.v[i]) =>
                      IsNoneValue(codecValue.data.val.ptr[i])

C18_Witness ==
    /\ codecPc = "roundtrip"
    /\ codecValue.type = glue_tuple
    /\ ~IsRaise(codecResult)
    /\ \E i \in 1..Len(codecObject.v) :
          /\ codecObject.v[i] = PyInt(0)
          /\ codecResult.v[i] = PyNone

\* All items are of the one type t (bool and int being different types).
AllOfType(items, t) == \A i \in 1..Len(items) : items[i].t = t

\* C19 (list encoding dispatch): a non-empty list of bools, of ints, of
\* floats or of strs is encoded as the array of that type with len items;
\* any other list, a list mixing bools and ints included, as a tuple of len
\* items whose i-th element is the encoding of the i-th item.
C19_ListDispatch ==
    (codecPc = "encoded" /\ codecObject.t = "list" /\ codecObject.v # <<>>) =>
        LET items == codecObject.v
        IN  /\ codecValue.len = Len(items)
            /\ IF AllOfType(items, "bool") THEN codecValue.type = glue_bool
               ELSE IF AllOfType(items, "int")
                   THEN codecValue.type \in {glue_int, glue_long}
               ELSE IF AllOfType(items, "float")
                   THEN codecValue.type = glue_double
               ELSE IF AllOfType(items, "str")
                   THEN codecValue.type = glue_string
               ELSE /\ codecValue.type = glue_tuple
                    /\ \A i \in 1..Len(items) :
                          codecValue.data.val.ptr[i]
                            = object_to_glue_value(items[i])

\* gv is, or contains at any depth, a GlueValue of type glue_composite_array.
RECURSIVE HasCompositeArray(_)
HasCompositeArray(gv) ==
    \/ gv.type = glue_composite_array
    \/ gv.type = glue_tuple /\ gv.data.val # NULL
          /\ \E i \in 1..gv.len : HasCompositeArray(gv.data.val.ptr[i])
    \/ gv.type = glue_composite /\ gv.data.val # NULL
          /\ \E i \in 1..gv.len : HasCompositeArray(gv.data.val.ptr[i].value)

\* codecObject is a non-empty list of dicts.
ListOfMaps ==
    /\ codecObject.t = "list"
    /\ codecObject.v # <<>>
    /\ AllOfType(codecObject.v, "dict")

C21_EveryUnsupportedRejected ==
    (codecPc \in {"encoded", "raised"} /\ HasUnencodableType(codecObject))
        => codecPc = "raised" /\ codecValue = Raise("ValueError")

\* C21, amended: the encoder raises the ValueError on every object that is,
\* or holds in a list or a dict, a truthy value of a type it has no branch
\* for.
C21_UnsupportedRejected ==
    (codecPc \in {"encoded", "raised"} /\ HasTruthyUnencodable(codecObject))
        => codecPc = "raised" /\ codecValue = Raise("ValueError")

C21_Witness ==
    /\ codecPc = "raised"
    /\ codecObject.t = "dict"
    /\ Len(codecObject.v) = 2
    /\ codecObject.v[2][2] = PyObject(TRUE)

\* C22 (null-payload decoding): whatever len holds, a composite with a null
\* pointer decodes to the empty dict, a tuple or a composite_array with a
\* null pointer to None.
C22_NullPayloadDecoding ==
    (/\ codecPc = "translated"
     /\ codecValue.type \in {glue_tuple, glue_composite, glue_composite_array}
     /\ codecValue.data.val = NULL)
        => codecResult = IF codecValue.type = glue_composite
                         THEN PyDict(<<>>) ELSE PyNone

C22_Witness ==
    /\ codecPc = "translated"
    /\ codecValue.type = glue_tuple
    /\ codecValue.data.val = NULL
    /\ codecValue.len > 0
    /\ codecResult = PyNone


\* The key payload_to_object gives to the arg at index i (from 0): its name,
\* or the placeholder when the name is absent (a null or an empty name).
KeyOfArg(payload, i) ==
    LET name == payload.args.ptr[i + 1].name
    IN  IF name = NULL \/ name = Bytes("") THEN ArgPlaceholders[i + 1]
        ELSE name.bytes

C24_BuildArgsOrdering ==
    codecPc \in {"args_built", "args_raised"} =>
        IF codecObject.t # "dict"
        THEN codecPc = "args_raised" /\ codecValue = Raise("ValueError")
        ELSE IF \E i \in 1..Len(codecObject.v) :
                    IsRaise(object_to_glue_value(codecObject.v[i][2]))
        THEN codecPc = "args_raised" /\ codecValue = Raise("ValueError")
        ELSE /\ codecPc = "args_built"
             /\ Len(codecValue.ptr) = Len(codecObject.v)
             /\ \A i \in 1..Len(codecObject.v) :
                   /\ codecValue.ptr[i].name = Bytes(codecObject.v[i][1])
                   /\ codecValue.ptr[i].value =
                          object_to_glue_value(codecObject.v[i][2])

\* The args of a dict of two entries with different values have been built.
C24_Witness ==
    /\ codecPc = "args_built"
    /\ codecObject.t = "dict"
    /\ Len(codecObject.v) = 2
    /\ codecValue.ptr[1].value # codecValue.ptr[2].value

\* C26: the result the one-shot trampoline of invoke_method passes to
\* result_callback is payload_to_object(payload) for every non-null payload,
\* also when a name is absent, and None for a null payload.
C26_TrampolineAgreesWithDecodePayload ==
    codecPc \in {"result_passed", "handler_raised"} =>
        IF codecValue = NULL THEN codecResult = PyNone
        ELSE \E junk \in Junk :
                codecResult = payload_to_object(codecValue.ptr, junk)


\* C25: whatever the native side delivers (several terminal states, a
\* non-zero return code together with a terminal state, a cancellation
\* before the terminal state), future.set_result is never run on a future
\* that is already done: no InvalidStateError is raised on the loop.
C25_SingleResolution == "InvalidStateError" \notin loopErrors


\* C27: a step that removes the trampoline of registration r (its disposer,
\* or the removal after its one-shot delivery) takes exactly that trampoline
\* out of the list it is in and leaves every other trampoline of both lists
\* where it is.  Every registration has a trampoline of its own, also when
\* the same host callback is registered again.
C27_DisposalFrame ==
    [][\A r \in Regs :
          removed'[r] = removed[r] + 1 =>
              /\ Count(active_callbacks', r)
                     + Count(context_callback_references', r)
                   = Count(active_callbacks, r)
                       + Count(context_callback_references, r) - 1
              /\ \A u \in Trampolines \ {r} :
                    /\ Count(active_callbacks', u) = Count(active_callbacks, u)
                    /\ Count(context_callback_references', u)
                         = Count(context_callback_references, u)]_vars

\* Two registrations were made, the trampoline of the first has been
\* removed and the trampoline of the second is still kept.
C27_Witness ==
    /\ appended[1] = 1 /\ appended[2] = 1
    /\ removed[1] = 1 /\ removed[2] = 0
    /\ ~KeptAlive(1) /\ KeptAlive(2)


\* C28: context_subscribed implies glue_initialized; the native subscribe
\* is issued only in a session state with glue_initialized true and
\* context_subscribed false, hence at most once per session; the native
\* glue_init is issued only while glue_initialized is false.
C28_SubscribeAfterInitializeOnce ==
    [][/\ session'.context_subscribed => session'.glue_initialized
       /\ dash'.subscribes <= 1
       /\ dash'.subscribes # dash.subscribes =>
              session.glue_initialized /\ ~session.context_subscribed
       /\ dash'.glue_inits # dash.glue_inits =>
              ~session.glue_initialized]_vars

\* The session is subscribed after one native subscribe and one glue_init,
\* and a later init_glue_sync call has returned at its first test.
C28_Witness ==
    /\ session.context_subscribed
    /\ dash.subscribes = 1
    /\ dash.glue_inits = 1
    /\ dash.how = "already"

\* C29: init_glue_sync sets glue_initialized and returns True only when
\* INITIALIZED was delivered before the wait ended; whenever it returns
\* False (CLR failure, non-zero return code, DISCONNECTED, timeout)
\* glue_initialized is still false and callback_instance is not in
\* active_callbacks; no state callback, late ones included, changes the
\* session state.
C29_InitGlueSyncOutcome ==
    [][/\ (session'.glue_initialized /\ ~session.glue_initialized) =>
              dash'.ret = "true" /\ Contains(initStates, INITIALIZED)
       /\ dash'.ret = "true" => session'.glue_initialized
       /\ dash'.ret = "false" =>
              /\ dash'.pc = "idle"
              /\ ~session'.glue_initialized
              /\ ~Contains(active_callbacks', InitT)
       /\ initStates' # initStates => session' = session]_vars

\* init_glue_sync has returned False on the timeout and the INITIALIZED
\* callback has run after that.
C29_Witness ==
    /\ dash.pc = "idle" /\ dash.ret = "false" /\ dash.how = "timeout"
    /\ Contains(initStates, INITIALIZED)
    /\ dash.init_result.success
    /\ ~session.glue_initialized
    /\ ~Contains(active_callbacks, InitT)

\* C30: last_context_timestamp never decreases; a poll returns a RIC only
\* when the signal it read has a timestamp greater than
\* last_context_timestamp, which then becomes that timestamp; and no
\* written signal is returned by more than one poll, so polls repeated
\* without a new write return nothing.
C30_PollMonotoneAtMostOnce ==
    [][/\ session'.last_context_timestamp >= session.last_context_timestamp
       /\ \A id \in 0..MaxWrites :
             /\ dash'.returned[id] <= 1
             /\ dash'.returned[id] # dash.returned[id] =>
                   /\ context_trigger_file.exists
                   /\ context_trigger_file.content = "json"
                   /\ context_trigger_file.id = id
                   /\ context_trigger_file.timestamp
                        > session.last_context_timestamp
                   /\ session'.last_context_timestamp
                        = context_trigger_file.timestamp
                   /\ dash'.new_ric = PyStr(context_trigger_file.ric)
       /\ (dash'.new_ric # dash.new_ric /\ dash'.new_ric # PyNone) =>
             \E id \in 0..MaxWrites :
                 dash'.returned[id] # dash.returned[id]]_vars

\* The signal of the first write was returned by one poll and the poll
\* after it, on the same file, returned nothing.
C30_Witness ==
    /\ dash.returned[1] = 1
    /\ dash.new_ric = PyNone
    /\ context_trigger_file.exists
    /\ context_trigger_file.content = "json"
    /\ context_trigger_file.id = 1
    /\ session.last_context_timestamp = context_trigger_file.timestamp


\* The file holds the complete signal of write id: it is the most recently
\* written RIC until another write truncates the file.
LatestWritten(id) ==
    /\ context_trigger_file.exists
    /\ context_trigger_file.content = "json"
    /\ context_trigger_file.id = id

\* C31: while the file is incomplete (truncated, or garbled) a poll returns
\* no RIC and leaves last_context_timestamp as it is; and under continued
\* polling the most recently written RIC is eventually returned by
\* check_for_context_updates, unless another write replaces it first.
C31_SignalNotLost ==
    /\ [][(/\ context_trigger_file.exists
           /\ context_trigger_file.content # "json"
           /\ context_trigger_file' = context_trigger_file) =>
              /\ session'.last_context_timestamp
                   = session.last_context_timestamp
              /\ session'.received_ric = session.received_ric
              /\ dash'.returned = dash.returned]_vars
    /\ \A id \in 1..MaxWrites :
          LatestWritten(id) ~> (dash.returned[id] >= 1 \/ ~LatestWritten(id))

====
